---- MODULE Spec2Model ----
(***************************************************************************)
(* A model of clio, a clipboard-history daemon.                            *)
(*                                                                         *)
(*   Spec       the History Store (src/src/db/repository.rs): the table    *)
(*              clipboard_entries and the operations on it.                *)
(*   SpecMerge, SpecAgain                                                  *)
(*              the same store; `last` records other facts of a            *)
(*              save_or_update call (see CallView, MergeView, AgainView).  *)
(*   SpecRace   the same store with a second process, `clio copy`          *)
(*              (src/src/cli/copy.rs), whose save_or_update interleaves    *)
(*              with the calls of the first between its lookup and its     *)
(*              write: save_or_update is not a transaction.                *)
(*   SpecFifo   the History Store driven only by save_or_update of         *)
(*              pairwise-distinct contents under one fixed capacity.       *)
(*   SpecRules  the Action Rule Engine (src/src/actions.rs): one           *)
(*              apply_rules pass, one loop iteration per step.             *)
(*   SpecChain  the same pass over rules whose commands chain.             *)
(*   SpecWatch, SpecWatchLive                                              *)
(*              the watch loop (src/src/cli/watch.rs) in its four sync     *)
(*              modes, with the two selection buffers, the user, the       *)
(*              interrupt and the store; SpecWatchLive adds fairness of    *)
(*              the loop and the clock.                                    *)
(*   SpecSize   the watch loop in configurations around max_size.          *)
(*   SpecOverflow                                                          *)
(*              apply_rules passes over rules whose TTL is at the limits   *)
(*              of the timestamp arithmetic.                               *)
(*   SpecCommand, SpecCommandLive                                          *)
(*              one run_command call (src/src/actions.rs): the calling     *)
(*              thread, the stdin writer thread, the child and its pipes;  *)
(*              SpecCommandLive adds fairness of the threads, the child    *)
(*              and the clock.                                             *)
(*   SpecHandles                                                           *)
(*              the background writers of run_sync and their handles.      *)
(*   SpecCompile                                                           *)
(*              Config::compile_rules (src/src/config/types.rs) over the   *)
(*              rule lists of a configuration.                             *)
(*   SpecRecreate                                                          *)
(*              the store driven by save_or_update and the clock alone.    *)
(*   SpecRestoreLive                                                       *)
(*              the fair watch loop under rules with two different TTLs.   *)
(*   SpecMirror the watch loop with the background writers followed: a     *)
(*              mirrored text reaches its buffer when its thread sets it.  *)
(*                                                                         *)
(* Timestamps are the millisecond strings of TIMESTAMP_FORMAT and of       *)
(* SQLite's strftime('%Y-%m-%dT%H:%M:%f'); they are fixed-width, so their  *)
(* string order is their numeric order and they are modelled as the        *)
(* integer number of milliseconds.  Two calls within one millisecond read  *)
(* the same timestamp.                                                     *)
(***************************************************************************)
EXTENDS Integers, Sequences, FiniteSets, TLC

VARIABLES
    rows,       \* the table clipboard_entries: a set of row records
    seq,        \* sqlite_sequence for the AUTOINCREMENT id: the largest id ever given
    now,        \* the wall clock, in milliseconds
    last,       \* the store call that ran last: its arguments and its result
    inflight,   \* SpecRace: the save_or_update of a second process, between its
                \* lookup and its write (None when there is none)
    fifo,       \* SpecFifo: the capacity of the run and the saves made so far
    ar,         \* SpecRules: the state of one apply_rules pass
    watch,      \* SpecWatch: the watch loop, the two selection buffers and its config
    proc,       \* SpecCommand: one run_command call, its child and its pipes
    handles,    \* SpecHandles: the background writers of run_sync and their handles
    cfg         \* SpecCompile: one Config::compile_rules call

vars == <<rows, seq, now, last, inflight, fifo, ar, watch, proc, handles, cfg>>

---------------------------------------------------------------------------
(* Bounds of the model *)

MaxTime == 2        \* the clock runs 0..MaxTime
MaxId == 2          \* at most MaxId rows are ever inserted
MaxHistory == 2     \* capacities 1..MaxHistory

---------------------------------------------------------------------------
(* Option<T>: None is the empty tuple, Some(v) the 1-tuple *)

None == << >>
Some(v) == << v >>
IsSome(o) == o # None
Unwrap(o) == o[1]

Contents == {"a", "b"}
SourceApps == {"Firefox", "Chrome"}

\* blake3 of the content bytes: collision-free on the model's contents
compute_hash(content) == << "blake3", content >>

Times == 0..MaxTime
OptTimes == {None} \cup {Some(t) : t \in Times}
OptApps == {None} \cup {Some(a) : a \in SourceApps}

\* Durations, in milliseconds.  Ages are the max_age values a configuration
\* gives; DurationMax stands for a std Duration that
\* chrono::Duration::from_std rejects (it exceeds i64::MAX milliseconds).
\* ChronoDurationMax is chrono::Duration::MAX, the largest it accepts, and
\* TimestampMax the largest DateTime<Utc>: as in chrono, the clock is far below
\* TimestampMax, and TimestampMax is below ChronoDurationMax.
Ttls == {1}
Ages == {1}
DurationMax == 1000
ChronoDurationMax == DurationMax - 1
TimestampMax == 500
MaxAges == {None} \cup {Some(a) : a \in Ages \cup {DurationMax}}
from_std_ok(d) == d < DurationMax

\* The entries a caller can hand to the store at time t (ClipboardEntry before
\* insert): apply_rules and `clio copy --ttl` set expires_at to now + ttl
\* The source applications of the entries saved: both where their merge is the
\* subject (SpecMerge), none where every writer is `clio copy` or the like
\* (SpecRace)
EntryApps(view) ==
    CASE view = "merge" -> OptApps
      [] view = "none"  -> {None}
      [] OTHER          -> {None, Some("Firefox")}

\* The max_history values of the save_or_update calls: Config::max_history,
\* one value where the capacity is not the subject (SpecMerge)
Capacities(view) == IF view = "merge" THEN {MaxHistory} ELSE 1..MaxHistory

Entries(view, t) ==
    [content : Contents,
     expires_at : {None} \cup {Some(t + d) : d \in Ttls},
     source_app : EntryApps(view)]

content_hash(entry) == compute_hash(entry.content)

---------------------------------------------------------------------------
(* The store's operations, as functions of the table *)

\* COALESCE(?, column)
COALESCE(a, b) == IF a # None THEN a ELSE b

\* Faulty variant: the index on content_hash, not UNIQUE
idx_entries_hash_not_unique(db, hash) == TRUE

\* The unique index idx_entries_hash: may a row with this hash be inserted?
idx_entries_hash_allows(db, hash) == \A r \in db : r.content_hash # hash

insert_entry(db, sq, entry, t) ==
    IF idx_entries_hash_allows(db, content_hash(entry))
    THEN [ok |-> TRUE,
          rows |-> db \cup {[id |-> sq + 1,
                             content |-> entry.content,
                             content_hash |-> content_hash(entry),
                             source_app |-> entry.source_app,
                             created_at |-> t,
                             expires_at |-> entry.expires_at]},
          seq |-> sq + 1,
          ret |-> sq + 1]
    ELSE [ok |-> FALSE, rows |-> db, seq |-> sq, ret |-> 0]

find_by_hash(db, hash) ==
    IF \E r \in db : r.content_hash = hash
    THEN Some(CHOOSE r \in db : r.content_hash = hash)
    ELSE None

update_timestamp_and_expiry(db, id, expires_at, t) ==
    {IF r.id = id
     THEN [r EXCEPT !.created_at = t, !.expires_at = expires_at]
     ELSE r : r \in db}

\* Faulty variant: the dedup update writing its arguments without COALESCE
update_on_dedup_overwrite(db, id, expires_at, source_app, t) ==
    {IF r.id = id
     THEN [r EXCEPT !.created_at = t,
                    !.expires_at = expires_at,
                    !.source_app = source_app]
     ELSE r : r \in db}

\* Faulty variant: the dedup update leaving created_at as it was
update_on_dedup_keep_created(db, id, expires_at, source_app, t) ==
    {IF r.id = id
     THEN [r EXCEPT !.expires_at = COALESCE(expires_at, r.expires_at),
                    !.source_app = COALESCE(source_app, r.source_app)]
     ELSE r : r \in db}

update_on_dedup(db, id, expires_at, source_app, t) ==
    {IF r.id = id
     THEN [r EXCEPT !.created_at = t,
                    !.expires_at = COALESCE(expires_at, r.expires_at),
                    !.source_app = COALESCE(source_app, r.source_app)]
     ELSE r : r \in db}

delete_entry(db, id) == {r \in db : r.id # id}

\* Faulty variant: ORDER BY created_at DESC
newest_first(db, n) ==
    {S \in SUBSET db :
        /\ Cardinality(S) = n
        /\ \A s \in S : \A k \in db \ S : s.created_at >= k.created_at}

\* SELECT id ... ORDER BY created_at ASC LIMIT n: every set of n rows that a
\* sort by created_at can put first (SQL leaves the order of equal keys open)
oldest_first(db, n) ==
    {S \in SUBSET db :
        /\ Cardinality(S) = n
        /\ \A s \in S : \A k \in db \ S : s.created_at <= k.created_at}

\* Faulty variant: prune_oldest deleting nothing
prune_oldest_noop(db, max_count) == {[rows |-> db, ret |-> 0]}

\* Faulty variant: prune_oldest deleting one row more than the excess
prune_oldest_one_more(db, max_count) ==
    LET count == Cardinality(db) IN
    IF count <= max_count
    THEN {[rows |-> db, ret |-> 0]}
    ELSE {[rows |-> db \ S, ret |-> Cardinality(S)] :
            S \in oldest_first(db, count - max_count + 1)}

\* The possible results of prune_oldest
prune_oldest(db, max_count) ==
    LET count == Cardinality(db) IN
    IF count <= max_count
    THEN {[rows |-> db, ret |-> 0]}
    ELSE {[rows |-> db \ S, ret |-> Cardinality(S)] :
            S \in oldest_first(db, count - max_count)}

\* Faulty variant: prune_expired returning early when no max_age is given
prune_expired_only_with_max_age(db, max_age, t) ==
    LET ttl_deleted == {r \in db : r.expires_at # None /\ Unwrap(r.expires_at) < t}
        after_ttl == db \ ttl_deleted
    IN  IF max_age = None
        THEN [ok |-> TRUE, rows |-> db, ret |-> 0, ttl_deleted |-> 0, deleted |-> 0]
        ELSE IF ~from_std_ok(Unwrap(max_age))
        THEN [ok |-> FALSE, rows |-> after_ttl, ret |-> 0,
              ttl_deleted |-> Cardinality(ttl_deleted), deleted |-> 0]
        ELSE LET cutoff == t - Unwrap(max_age)
                 deleted == {r \in after_ttl : r.created_at < cutoff}
             IN  [ok |-> TRUE, rows |-> after_ttl \ deleted,
                  ret |-> Cardinality(ttl_deleted) + Cardinality(deleted),
                  ttl_deleted |-> Cardinality(ttl_deleted),
                  deleted |-> Cardinality(deleted)]

prune_expired(db, max_age, t) ==
    LET ttl_deleted == {r \in db : r.expires_at # None /\ Unwrap(r.expires_at) < t}
        after_ttl == db \ ttl_deleted
    IN  IF max_age = None
        THEN [ok |-> TRUE, rows |-> after_ttl, ret |-> Cardinality(ttl_deleted),
              ttl_deleted |-> Cardinality(ttl_deleted), deleted |-> 0]
        ELSE IF ~from_std_ok(Unwrap(max_age))
        THEN [ok |-> FALSE, rows |-> after_ttl, ret |-> 0,
              ttl_deleted |-> Cardinality(ttl_deleted), deleted |-> 0]
        ELSE LET cutoff == t - Unwrap(max_age)
                 deleted == {r \in after_ttl : r.created_at < cutoff}
             IN  [ok |-> TRUE, rows |-> after_ttl \ deleted,
                  ret |-> Cardinality(ttl_deleted) + Cardinality(deleted),
                  ttl_deleted |-> Cardinality(ttl_deleted),
                  deleted |-> Cardinality(deleted)]

\* Faulty variant: get_latest_active without its WHERE clause
get_latest_any(db, t) ==
    IF db = {}
    THEN {None}
    ELSE {Some(r) : r \in {a \in db : \A o \in db : o.created_at <= a.created_at}}

\* SELECT ... WHERE expires_at IS NULL OR expires_at >= now
\*            ORDER BY created_at DESC LIMIT 1: the possible results
get_latest_active(db, t) ==
    LET active == {r \in db : r.expires_at = None \/ Unwrap(r.expires_at) >= t}
    IN  IF active = {}
        THEN {None}
        ELSE {Some(r) : r \in {a \in active :
                                 \A o \in active : o.created_at <= a.created_at}}

\* Faulty variant: the hash lookup made on the table as it was before pruning
save_lookup_unpruned(db, entry, max_age, t) ==
    LET pruned == prune_expired(db, max_age, t)
        existing == find_by_hash(db, content_hash(entry))
    IN  [ok |-> pruned.ok, rows |-> db,
         existing |-> IF pruned.ok /\ existing # None
                      THEN Some(Unwrap(existing).id)
                      ELSE None]

\* save_or_update up to its lookup: prune_expired, then find_by_hash; of the
\* row found the call keeps the id
save_lookup(db, entry, max_age, t) ==
    LET pruned == prune_expired(db, max_age, t)
        existing == find_by_hash(pruned.rows, content_hash(entry))
    IN  [ok |-> pruned.ok, rows |-> pruned.rows,
         existing |-> IF pruned.ok /\ existing # None
                      THEN Some(Unwrap(existing).id)
                      ELSE None]

\* Faulty variant: capacity eviction on the dedup branch as well
save_write_evict_always(db, sq, entry, max_history, existing, t) ==
    IF existing # None
    THEN {[ok |-> TRUE, branch |-> "dedup", rows |-> po.rows,
           seq |-> sq, ret |-> Unwrap(existing)] :
             po \in prune_oldest(update_on_dedup(db, Unwrap(existing),
                                    entry.expires_at, entry.source_app, t),
                                 max_history)}
    ELSE LET ins == insert_entry(db, sq, entry, t) IN
         IF ~ins.ok
         THEN {[ok |-> FALSE, branch |-> "error", rows |-> ins.rows,
                seq |-> ins.seq, ret |-> 0]}
         ELSE {[ok |-> TRUE, branch |-> "insert", rows |-> po.rows,
                seq |-> ins.seq, ret |-> ins.ret] :
                  po \in prune_oldest(ins.rows, max_history)}

\* save_or_update after its lookup: the dedup branch or the insert branch;
\* the possible results
save_write(db, sq, entry, max_history, existing, t) ==
    IF existing # None
    THEN {[ok |-> TRUE, branch |-> "dedup",
           rows |-> update_on_dedup(db, Unwrap(existing),
                                    entry.expires_at, entry.source_app, t),
           seq |-> sq, ret |-> Unwrap(existing)]}
    ELSE LET ins == insert_entry(db, sq, entry, t) IN
         IF ~ins.ok
         THEN {[ok |-> FALSE, branch |-> "error", rows |-> ins.rows,
                seq |-> ins.seq, ret |-> 0]}
         ELSE {[ok |-> TRUE, branch |-> "insert", rows |-> po.rows,
                seq |-> ins.seq, ret |-> ins.ret] :
                  po \in prune_oldest(ins.rows, max_history)}

\* The possible results of save_or_update
save_or_update(db, sq, entry, max_history, max_age, t) ==
    LET lk == save_lookup(db, entry, max_age, t) IN
    IF ~lk.ok
    THEN {[ok |-> FALSE, branch |-> "error", rows |-> lk.rows, seq |-> sq,
           ret |-> 0]}
    ELSE save_write(lk.rows, sq, entry, max_history, lk.existing, t)

---------------------------------------------------------------------------
(* The store under arbitrary calls.  `last` records the call that ran last;
   what it keeps of a save_or_update call is chosen by View. *)

NoCall == [op |-> "none"]

\* Was the call before this save_or_update a successful save_or_update of the
\* same content, with no other call in between?
Again(l, entry) ==
    /\ l.op = "save_or_update"
    /\ {"ok", "content"} \subseteq DOMAIN l
    /\ l.ok
    /\ l.content = entry.content

\* Does the table hold a row of the entry's content whose expiry is past?
Stale(db, entry, t) ==
    \E r \in db : /\ r.content_hash = content_hash(entry)
                  /\ r.expires_at # None /\ Unwrap(r.expires_at) < t

\* Spec: the capacity and the outcome
CallView(c) ==
    IF c.op # "save_or_update" THEN c ELSE
    [op |-> c.op, content |-> c.entry.content, max_history |-> c.max_history,
     ok |-> c.ok, branch |-> c.branch, ret |-> c.ret]

\* SpecMerge: of a save_or_update that merged, the incoming entry and the id
\* returned; of any other call its name
MergeView(c) ==
    IF c.op # "save_or_update" THEN [op |-> c.op]
    ELSE IF c.branch # "dedup" THEN [op |-> c.op, branch |-> c.branch]
    ELSE [op |-> c.op, entry |-> c.entry, branch |-> c.branch, ret |-> c.ret]

\* SpecAgain: of a save_or_update the max_age, the outcome, and whether the
\* call repeats the last one; of any other call its name
AgainView(c) ==
    IF c.op # "save_or_update" THEN [op |-> c.op] ELSE
    [op |-> c.op, content |-> c.entry.content, max_age |-> c.max_age,
     ok |-> c.ok, branch |-> c.branch, ret |-> c.ret, again |-> c.again]

\* SpecRecreate: of a save_or_update the incoming entry, the outcome, and
\* whether the call met a row of the same content with a past expiry
EntryView(c) ==
    IF c.op # "save_or_update" THEN [op |-> c.op] ELSE
    [op |-> c.op, entry |-> c.entry, ok |-> c.ok, branch |-> c.branch,
     ret |-> c.ret, stale |-> c.stale]

NoView(c) == NoCall

\* What `last` keeps of a call, by the specification that runs
View(view, c) ==
    CASE view = "call"  -> CallView(c)
      [] view = "merge" -> MergeView(c)
      [] view = "again" -> AgainView(c)
      [] view = "entry" -> EntryView(c)
      [] OTHER          -> NoView(c)

RulesIdle == [pc |-> "off"]
WatchIdle == [pc |-> "off"]
ProcIdle == [pc |-> "off"]

\* No run_sync under way
HandlesIdle == [pc |-> "off"]

\* No compile_rules call under way
CfgIdle == [pc |-> "off"]

FifoIdle == [on |-> FALSE]

Init ==
    /\ rows = {}
    /\ seq = 0
    /\ now = 0
    /\ last = NoCall
    /\ inflight = None
    /\ fifo = FifoIdle
    /\ ar = RulesIdle
    /\ watch = WatchIdle
    /\ proc = ProcIdle /\ handles = HandlesIdle /\ cfg = CfgIdle

Tick ==
    /\ now < MaxTime
    /\ now' = now + 1
    /\ UNCHANGED <<rows, seq, last, inflight, fifo, ar, watch, proc, handles, cfg>>

SaveOrUpdate(view) ==
    \E entry \in Entries(view, now), max_history \in Capacities(view), max_age \in MaxAges :
      \E out \in save_or_update(rows, seq, entry, max_history, max_age, now) :
        /\ out.seq <= MaxId
        /\ rows' = out.rows
        /\ seq' = out.seq
        /\ last' = View(view, [op |-> "save_or_update", entry |-> entry,
                         max_history |-> max_history, max_age |-> max_age,
                         ok |-> out.ok, branch |-> out.branch, ret |-> out.ret,
                         again |-> Again(last, entry),
                         stale |-> Stale(rows, entry, now)])
        /\ UNCHANGED <<now, inflight, fifo, ar, watch, proc, handles, cfg>>

PruneOldest(view) ==
    \E max_count \in 0..MaxHistory :
      \E out \in prune_oldest(rows, max_count) :
        /\ rows' = out.rows
        /\ last' = View(view, [op |-> "prune_oldest", max_count |-> max_count,
                         ret |-> out.ret])
        /\ UNCHANGED <<seq, now, inflight, fifo, ar, watch, proc, handles, cfg>>

PruneExpired(view) ==
    \E max_age \in MaxAges :
      LET out == prune_expired(rows, max_age, now) IN
        /\ rows' = out.rows
        /\ last' = View(view, [op |-> "prune_expired", max_age |-> max_age,
                         ok |-> out.ok, ret |-> out.ret,
                         ttl_deleted |-> out.ttl_deleted,
                         deleted |-> out.deleted])
        /\ UNCHANGED <<seq, now, inflight, fifo, ar, watch, proc, handles, cfg>>

DeleteEntry(view) ==
    \E id \in 1..MaxId :
        /\ rows' = delete_entry(rows, id)
        /\ last' = View(view, [op |-> "delete_entry", id |-> id])
        /\ UNCHANGED <<seq, now, inflight, fifo, ar, watch, proc, handles, cfg>>

\* The history window activating a row: refresh its timestamp, clear its expiry
UpdateTimestampAndExpiry(view) ==
    \E r \in rows :
        /\ rows' = update_timestamp_and_expiry(rows, r.id, None, now)
        /\ last' = View(view, [op |-> "update_timestamp_and_expiry", id |-> r.id])
        /\ UNCHANGED <<seq, now, inflight, fifo, ar, watch, proc, handles, cfg>>

GetLatestActive(view) ==
    \E out \in get_latest_active(rows, now) :
        /\ last' = View(view, [op |-> "get_latest_active", ret |-> out])
        /\ UNCHANGED <<rows, seq, now, inflight, fifo, ar, watch, proc, handles, cfg>>

StoreNext(view) ==
    \/ Tick
    \/ SaveOrUpdate(view)
    \/ PruneOldest(view)
    \/ PruneExpired(view)
    \/ DeleteEntry(view)
    \/ UpdateTimestampAndExpiry(view)
    \/ GetLatestActive(view)

\* SpecRace: nothing

\* `clio copy` run beside `clio watch`: a second process that calls
\* save_or_update on the same database, with an entry that has no source
\* application.  The call is no transaction, so the calls of the first
\* process can fall between its lookup and its write.
CopyEntries(t) == {e \in Entries("none", t) : e.source_app = None}

CopyBegin ==
    \E entry \in CopyEntries(now), max_history \in Capacities("none"), max_age \in MaxAges :
      LET lk == save_lookup(rows, entry, max_age, now) IN
        /\ inflight = None
        /\ seq < MaxId
        /\ rows' = lk.rows
        /\ inflight' = IF lk.ok
                       THEN Some([entry |-> entry, max_history |-> max_history,
                                  existing |-> lk.existing])
                       ELSE None
        /\ UNCHANGED <<seq, now, last, fifo, ar, watch, proc, handles, cfg>>

CopyFinish ==
    /\ inflight # None
    /\ LET c == Unwrap(inflight) IN
       \E out \in save_write(rows, seq, c.entry, c.max_history, c.existing, now) :
         /\ rows' = out.rows
         /\ seq' = out.seq
    /\ inflight' = None
    /\ UNCHANGED <<now, last, fifo, ar, watch, proc, handles, cfg>>

Next == StoreNext("call")
NextRace == StoreNext("none") \/ CopyBegin \/ CopyFinish
NextMerge == StoreNext("merge")
NextAgain == StoreNext("again")

\* The store under save_or_update calls only, as the watch loop and `clio
\* copy` drive it between prunings
NextRecreate == Tick \/ SaveOrUpdate("entry")

Spec == Init /\ [][Next]_vars
SpecRecreate == Init /\ [][NextRecreate]_vars
SpecMerge == Init /\ [][NextMerge]_vars
SpecAgain == Init /\ [][NextAgain]_vars
SpecRace == Init /\ [][NextRace]_vars

---------------------------------------------------------------------------
(* Claims about the History Store *)

\* C1: the store never contains two rows with the same content hash, after
\* any sequence of save_or_update, prune_oldest, prune_expired and
\* delete_entry calls, also when a second process's save_or_update is
\* interleaved with them.
C1_DedupUnique ==
    \A r1 \in rows : \A r2 \in rows :
        r1.content_hash = r2.content_hash => r1 = r2

\* C1 witness: a second process looked a content up, found nothing, and the
\* first process has stored that content before the second one writes.
C1_Witness ==
    /\ inflight # None
    /\ Unwrap(inflight).existing = None
    /\ \E r \in rows : r.content = Unwrap(inflight).entry.content


(* ------------------------------------------------------------------ *)
(* Sequential saves of distinct entries under one capacity              *)
(* (repository.rs, test_save_or_update_with_pruning)                    *)
(* ------------------------------------------------------------------ *)

FifoContents == {"a", "b", "c", "d"}

InitFifo ==
    /\ rows = {} /\ seq = 0 /\ now = 0 /\ last = NoCall
    /\ inflight = None /\ ar = RulesIdle /\ watch = WatchIdle
    /\ proc = ProcIdle /\ handles = HandlesIdle /\ cfg = CfgIdle
    /\ fifo \in {[on |-> TRUE, max_history |-> k, log |-> << >>] :
                    k \in 1..MaxHistory}

\* save_or_update of an entry not saved before, without expiry, without
\* max_age, under the capacity of the run
FifoSave ==
    \E content \in FifoContents :
      LET entry == [content |-> content, expires_at |-> None, source_app |-> None] IN
      \E out \in save_or_update(rows, seq, entry, fifo.max_history, None, now) :
        /\ \A k \in 1..Len(fifo.log) : fifo.log[k].content # content
        /\ out.ok
        /\ rows' = out.rows
        /\ seq' = out.seq
        /\ fifo' = [fifo EXCEPT !.log =
                      Append(@, [content |-> content, created_at |-> now])]
        /\ UNCHANGED <<now, last, inflight, ar, watch, proc, handles, cfg>>

NextFifo == Tick \/ FifoSave

SpecFifo == InitFifo /\ [][NextFifo]_vars

(* ------------------------------------------------------------------ *)
(* The action rule engine (actions.rs)                                  *)
(* ------------------------------------------------------------------ *)

\* Text contents, closed under the commands below
Texts == {"ab", "AB"}

\* EntryContent: Text(String) or Image(bytes)
TextContent(t) == [kind |-> "text", text |-> t]
ImageContent == [kind |-> "image"]

\* EntryContent::text(): the text of a text entry, None for an image
text(content) == IF content.kind = "text" THEN Some(content.text) ELSE None

SourceTitles == {"Bank", "Mail"}

\* Regex::is_match for the patterns used in the rules
is_match(regex, t) ==
    CASE regex = "^a"   -> t \in {"ab", "ab!"}
      [] regex = "^A"   -> t \in {"AB", "AB!"}
      [] regex = "Bank" -> t \in {"Bank"}
      [] OTHER          -> FALSE

\* What the command writes to stdout for the given stdin
stdout_of(cmd, input) ==
    CASE cmd = <<"tr", "a-z", "A-Z">> ->
            (CASE input = "ab" -> "AB" [] OTHER -> input)
      [] cmd = <<"tr", "a-zA-Z", "A-Za-z">> ->
            (CASE input = "ab" -> "AB" [] input = "AB" -> "ab" [] OTHER -> input)
      [] cmd = <<"sed", "s/$/!/">> ->
            (CASE input = "ab" -> "ab!" [] input = "AB" -> "AB!" [] OTHER -> input)
      [] OTHER -> input

\* run_command: Ok(stdout) or Err (spawn failure, timeout, non-zero exit,
\* invalid UTF-8)
run_command(cmd, input) ==
    {[ok |-> TRUE, output |-> stdout_of(cmd, input)], [ok |-> FALSE]}

RuleTtls == {30, 60}

\* CompiledRule (name and command_timeout left out); ActionRule::compile
\* rejects a rule without any condition
CompiledRules ==
    {r \in [source_app : {None, Some("Firefox")},
            content_regex : {None, Some("^a"), Some("^A")},
            source_title_regex : {None, Some("Bank")},
            ttl : {None} \cup {Some(d) : d \in RuleTtls},
            command : {None, Some(<<"tr", "a-z", "A-Z">>)}] :
        ~(r.source_app = None /\ r.content_regex = None
            /\ r.source_title_regex = None)}

\* The rule lists of a configuration: none, one or two rules
RuleLists ==
    {<< >>} \cup {<<r>> : r \in CompiledRules}
            \cup {<<r1, r2>> : r1 \in CompiledRules, r2 \in CompiledRules}

\* The entries handed to apply_rules
RuleEntries ==
    [content : {TextContent(t) : t \in Texts} \cup {ImageContent},
     source_app : OptApps,
     source_title : {None} \cup {Some(t) : t \in SourceTitles}]

\* Faulty variant: the content regex tested only when there is a text
rule_matches_regex_needs_text(rule, source_app, txt, is_image, source_title) ==
    IF rule.source_app # None /\ source_app # rule.source_app
    THEN FALSE
    ELSE IF rule.content_regex # None /\ txt # None
            /\ ~is_match(Unwrap(rule.content_regex), Unwrap(txt))
    THEN FALSE
    ELSE IF rule.source_title_regex # None
            /\ (source_title = None
                \/ ~is_match(Unwrap(rule.source_title_regex), Unwrap(source_title)))
    THEN FALSE
    ELSE TRUE

\* Faulty variant: a title regex never satisfied by an image entry
rule_matches_title_text_only(rule, source_app, txt, is_image, source_title) ==
    IF rule.source_app # None /\ source_app # rule.source_app
    THEN FALSE
    ELSE IF rule.content_regex # None
            /\ (is_image \/ txt = None
                \/ ~is_match(Unwrap(rule.content_regex), Unwrap(txt)))
    THEN FALSE
    ELSE IF rule.source_title_regex # None
            /\ (is_image \/ source_title = None
                \/ ~is_match(Unwrap(rule.source_title_regex), Unwrap(source_title)))
    THEN FALSE
    ELSE TRUE

\* Faulty variant: rule_matches skipping the source_app check when the entry has none
rule_matches_lenient(rule, source_app, txt, is_image, source_title) ==
    IF rule.source_app # None /\ source_app # None /\ source_app # rule.source_app
    THEN FALSE
    ELSE IF rule.content_regex # None
            /\ (is_image \/ txt = None
                \/ ~is_match(Unwrap(rule.content_regex), Unwrap(txt)))
    THEN FALSE
    ELSE IF rule.source_title_regex # None
            /\ (source_title = None
                \/ ~is_match(Unwrap(rule.source_title_regex), Unwrap(source_title)))
    THEN FALSE
    ELSE TRUE

rule_matches(rule, source_app, txt, is_image, source_title) ==
    IF rule.source_app # None /\ source_app # rule.source_app
    THEN FALSE
    ELSE IF rule.content_regex # None
            /\ (is_image \/ txt = None
                \/ ~is_match(Unwrap(rule.content_regex), Unwrap(txt)))
    THEN FALSE
    ELSE IF rule.source_title_regex # None
            /\ (source_title = None
                \/ ~is_match(Unwrap(rule.source_title_regex), Unwrap(source_title)))
    THEN FALSE
    ELSE TRUE

\* Faulty variant: the TTL action keeping the first TTL of the pass
ttl_action_first(ttl, rule) == IF ttl # None THEN ttl ELSE rule.ttl

\* The TTL action of a matching rule: if let Some(rule_ttl) = rule.ttl
ttl_action(ttl, rule) == IF rule.ttl # None THEN rule.ttl ELSE ttl

\* Faulty variant: the conditions tested on the entry's text
condition_text_original(original, current_text) == original

\* The text the conditions of a rule are tested on: rule_matches(rule, ..,
\* current_text.as_deref(), ..)
condition_text(original, current_text) == current_text

\* Faulty variant: the command fed with the entry's text, not the running text
command_input_original(original, current_text) == original

\* The stdin of a rule's command: if let Some(ref input) = current_text
command_input(original, current_text) == current_text

\* Faulty variant: a failed command leaving an empty running text
command_action_clearing(current_text, out) ==
    IF out.ok THEN Some(out.output) ELSE Some("")

\* The running text after a command: Ok(output) replaces it, Err keeps it
command_action(current_text, out) ==
    IF out.ok THEN Some(out.output) ELSE current_text

\* DateTime::checked_add_signed: None when the sum is past the largest DateTime
checked_add_signed(t, d) == IF t + d <= TimestampMax THEN Some(t + d) ELSE None

\* The expiry timestamp of a pass (actions.rs 68-78).  from_std failing prints
\* the warning and substitutes chrono::Duration::MAX; `Utc::now() + chrono_d`
\* is checked_add_signed(..).expect(..), a panic when the sum overflows.
expires_at_of(ttl, t) ==
    IF ttl = None
    THEN [panic |-> FALSE, warned |-> FALSE, value |-> None]
    ELSE LET d == Unwrap(ttl)
             chrono_d == IF from_std_ok(d) THEN d ELSE ChronoDurationMax
             expires == checked_add_signed(t, chrono_d)
         IN  IF expires = None
             THEN [panic |-> TRUE, warned |-> ~from_std_ok(d)]
             ELSE [panic |-> FALSE, warned |-> ~from_std_ok(d), value |-> expires]

\* apply_rules at its loop head: locals after lines 27-33
InitRules ==
    /\ rows = {} /\ seq = 0 /\ now = 0 /\ last = NoCall
    /\ inflight = None /\ fifo = FifoIdle /\ watch = WatchIdle
    /\ proc = ProcIdle /\ handles = HandlesIdle /\ cfg = CfgIdle
    /\ ar \in {[pc |-> "loop", entry |-> e, rules |-> rs, i |-> 1,
                ttl |-> None, current_text |-> text(e.content),
                seen |-> << >>] : e \in RuleEntries, rs \in RuleLists}

\* One iteration of `for rule in rules`; seen records, per rule, the running
\* text the rule was tested on, whether it matched, and how its command went
\* ("ok", "err", or "none" when no command ran)
ApplyRulesIter ==
    /\ ar.pc = "loop" /\ ar.i <= Len(ar.rules)
    /\ LET rule == ar.rules[ar.i]
           matched == rule_matches(rule, ar.entry.source_app,
                                   condition_text(text(ar.entry.content),
                                                  ar.current_text),
                                   ar.entry.content.kind = "image",
                                   ar.entry.source_title)
           note == [matched |-> matched, text |-> ar.current_text, ran |-> "none"]
           input == command_input(text(ar.entry.content), ar.current_text)
       IN  IF ~matched
           THEN ar' = [ar EXCEPT !.i = @ + 1, !.seen = Append(@, note)]
           ELSE IF rule.command = None \/ input = None
           THEN ar' = [ar EXCEPT !.i = @ + 1,
                                 !.ttl = ttl_action(@, rule),
                                 !.seen = Append(@, note)]
           ELSE \E out \in run_command(Unwrap(rule.command), Unwrap(input)) :
                  ar' = [ar EXCEPT !.i = @ + 1,
                                   !.ttl = ttl_action(@, rule),
                                   !.current_text = command_action(@, out),
                                   !.seen = Append(@, [note EXCEPT !.ran =
                                        IF out.ok THEN "ok" ELSE "err"])]
    /\ UNCHANGED <<rows, seq, now, last, inflight, fifo, watch, proc, handles, cfg>>

\* After the loop: build the ActionResult, or panic in the timestamp
\* arithmetic; warned tells whether the "too large" warning was printed
ApplyRulesReturn ==
    /\ ar.pc = "loop" /\ ar.i > Len(ar.rules)
    /\ LET original == text(ar.entry.content)
           transformed_text ==
               IF original # None /\ ar.current_text # None
                  /\ original # ar.current_text
               THEN ar.current_text ELSE None
           expires_at == expires_at_of(ar.ttl, now)
       IN  IF expires_at.panic
           THEN ar' = [pc |-> "panic", entry |-> ar.entry, rules |-> ar.rules,
                       seen |-> ar.seen, ttl |-> ar.ttl,
                       warned |-> expires_at.warned]
           ELSE ar' = [pc |-> "done", entry |-> ar.entry, rules |-> ar.rules,
                       seen |-> ar.seen, warned |-> expires_at.warned,
                       result |-> [transformed_text |-> transformed_text,
                                   expires_at |-> expires_at.value,
                                   ttl |-> ar.ttl]]
    /\ UNCHANGED <<rows, seq, now, last, inflight, fifo, watch, proc, handles, cfg>>

NextRules == ApplyRulesIter \/ ApplyRulesReturn

\* Command chains: rules without TTL whose commands are tr a-z A-Z (to upper
\* case) and tr a-zA-Z A-Za-z (swap case), lists of up to three rules, entries without a window title
ChainRules ==
    {r \in [source_app : {None, Some("Firefox")},
            content_regex : {None, Some("^a")},
            source_title_regex : {None},
            ttl : {None},
            command : {None, Some(<<"tr", "a-z", "A-Z">>),
                       Some(<<"tr", "a-zA-Z", "A-Za-z">>)}] :
        ~(r.source_app = None /\ r.content_regex = None)}

ChainLists ==
    {<< >>} \cup {<<r>> : r \in ChainRules}
            \cup {<<r1, r2>> : r1 \in ChainRules, r2 \in ChainRules}
            \cup {<<r1, r2, r3>> : r1 \in ChainRules, r2 \in ChainRules,
                                   r3 \in ChainRules}

ChainEntries ==
    [content : {TextContent(t) : t \in Texts} \cup {ImageContent},
     source_app : {None, Some("Firefox")},
     source_title : {None}]

InitChain ==
    /\ rows = {} /\ seq = 0 /\ now = 0 /\ last = NoCall
    /\ inflight = None /\ fifo = FifoIdle /\ watch = WatchIdle
    /\ proc = ProcIdle /\ handles = HandlesIdle /\ cfg = CfgIdle
    /\ ar \in {[pc |-> "loop", entry |-> e, rules |-> rs, i |-> 1,
                ttl |-> None, current_text |-> text(e.content),
                seen |-> << >>] : e \in ChainEntries, rs \in ChainLists}

SpecChain == InitChain /\ [][NextRules]_vars

\* TTLs at the limits of the timestamp arithmetic: a small one, the largest
\* from_std accepts, and one it rejects; rules without commands
OverflowTtls == {1, ChronoDurationMax, DurationMax}
OverflowRules ==
    {r \in [source_app : {None, Some("Firefox")},
            content_regex : {None, Some("^a")},
            source_title_regex : {None},
            ttl : {Some(d) : d \in OverflowTtls},
            command : {None}] :
        ~(r.source_app = None /\ r.content_regex = None)}
OverflowLists ==
    {<<r>> : r \in OverflowRules}
        \cup {<<r1, r2>> : r1 \in OverflowRules, r2 \in OverflowRules}

InitOverflow ==
    /\ rows = {} /\ seq = 0 /\ now \in Times /\ last = NoCall
    /\ inflight = None /\ fifo = FifoIdle /\ watch = WatchIdle
    /\ proc = ProcIdle /\ handles = HandlesIdle /\ cfg = CfgIdle
    /\ ar \in {[pc |-> "loop", entry |-> e, rules |-> rs, i |-> 1,
                ttl |-> None, current_text |-> text(e.content),
                seen |-> << >>] : e \in ChainEntries, rs \in OverflowLists}

SpecOverflow == InitOverflow /\ [][NextRules]_vars

SpecRules == InitRules /\ [][NextRules]_vars

(* ------------------------------------------------------------------ *)
(* Properties                                                           *)
(* ------------------------------------------------------------------ *)

\* A row's per-entry expiry is in the past at time t
Expired(r, t) == r.expires_at # None /\ Unwrap(r.expires_at) < t

\* A row is older than max_age at time t
Aged(r, max_age, t) == max_age # None /\ r.created_at < t - Unwrap(max_age)

\* The step is a store call named op (the clock stands still during a call)
CallStep(op) == now' = now /\ last'.op = op

\* C2 as stated: two save_or_update calls in a row with equal content return
\* the same id, and the row count after the second equals that after the first.
C2_AsStated ==
    [][(CallStep("save_or_update") /\ last'.ok /\ last'.again)
        => /\ last'.ret = last.ret
           /\ Cardinality(rows') = Cardinality(rows)]_vars

\* C2 amended: two save_or_update calls in a row with equal content return the
\* same id provided the row the first call stored is still in the store and
\* is neither expired nor older than max_age when the second call runs; the
\* second call then adds no row: the row count after it is the count after the
\* first call less the rows its pruning deleted.
C2_DedupIdempotent ==
    [][(/\ CallStep("save_or_update") /\ last'.ok /\ last'.again
        /\ \E r \in rows : /\ r.id = last.ret
                           /\ ~Expired(r, now)
                           /\ ~Aged(r, last'.max_age, now))
        => /\ last'.ret = last.ret
           /\ Cardinality(rows') =
                Cardinality(rows) - Cardinality({r \in rows :
                    Expired(r, now) \/ Aged(r, last'.max_age, now)})]_vars

\* C2 witness: the second of two save_or_update calls in a row with equal
\* content has merged into the row of the first.
C2_Witness ==
    /\ last.op = "save_or_update"
    /\ last.again /\ last.ok /\ last.branch = "dedup"

\* C3: when save_or_update hits an existing row, each of expires_at and
\* source_app takes the incoming value if it is present and keeps the stored
\* value if it is absent; a stored value is never cleared.
C3_MergePreserve ==
    [][(CallStep("save_or_update") /\ last'.branch = "dedup")
        => \E old \in rows : \E new \in rows' :
             /\ old.id = last'.ret /\ new.id = last'.ret
             /\ new.content_hash = old.content_hash
             /\ new.expires_at = IF last'.entry.expires_at # None
                                 THEN last'.entry.expires_at ELSE old.expires_at
             /\ new.source_app = IF last'.entry.source_app # None
                                 THEN last'.entry.source_app ELSE old.source_app
             /\ (old.expires_at # None => new.expires_at # None)
             /\ (old.source_app # None => new.source_app # None)]_vars

\* C3 witness: a dedup write with neither an expiry nor a source application
\* has left a row that carries both.
C3_Witness ==
    /\ last.op = "save_or_update" /\ last.branch = "dedup"
    /\ last.entry.expires_at = None /\ last.entry.source_app = None
    /\ \E r \in rows : /\ r.id = last.ret
                       /\ r.expires_at # None /\ r.source_app # None

\* C5 as stated: after any successful save_or_update the store holds at most
\* `capacity` entries.
C5_AsStated ==
    (last.op = "save_or_update" /\ last.ok)
        => Cardinality(rows) <= last.max_history

\* C5 amended: TTL pruning runs on both write paths of save_or_update, capacity
\* eviction on the insert path only: a successful call deletes every row whose
\* expiry was in the past; after an insert the store holds at most `capacity` entries;
\* after a dedup merge it holds no more entries than before the call.
C5_WritePaths ==
    [][(CallStep("save_or_update") /\ last'.ok)
        => /\ \A r \in rows : Expired(r, now) => \A k \in rows' : k.id # r.id
           /\ last'.branch \in {"insert", "dedup"}
           /\ (last'.branch = "insert" => Cardinality(rows') <= last'.max_history)
           /\ (last'.branch = "dedup" => Cardinality(rows') <= Cardinality(rows))]_vars

\* C5 witness: a dedup merge has left the store above the capacity of the call.
C5_Witness ==
    /\ last.op = "save_or_update" /\ last.ok /\ last.branch = "dedup"
    /\ Cardinality(rows) > last.max_history

\* C6: one prune_expired(max_age) call deletes exactly the rows whose expiry is
\* set and in the past, whether or not max_age is given, and, when max_age is
\* given, the rows created before now - max_age; it returns the sum of the two
\* counts.
C6_AdditivePruning ==
    [][(CallStep("prune_expired") /\ last'.ok)
        => LET byTtl == {r \in rows : Expired(r, now)}
               byAge == {r \in rows \ byTtl : Aged(r, last'.max_age, now)}
           IN  /\ rows' = rows \ (byTtl \cup byAge)
               /\ last'.ttl_deleted = Cardinality(byTtl)
               /\ last'.deleted = Cardinality(byAge)
               /\ last'.ret = Cardinality(byTtl) + Cardinality(byAge)]_vars

\* C6 witness: one call has deleted a row by its expiry and another by max_age.
C6_Witness ==
    /\ last.op = "prune_expired" /\ last.ok
    /\ last.ttl_deleted = 1 /\ last.deleted = 1 /\ last.ret = 2

\* C7: get_latest_active returns a row of greatest created_at among the rows
\* whose expiry is absent or not in the past, and none exactly when every
\* stored row has a past expiry (or the store is empty); a row with a past
\* expiry is never returned.
C7_LatestActive ==
    [][CallStep("get_latest_active")
        => LET active == {r \in rows : ~Expired(r, now)} IN
           /\ (last'.ret = None) = (\A r \in rows : Expired(r, now))
           /\ last'.ret # None =>
                /\ Unwrap(last'.ret) \in active
                /\ \A a \in active : a.created_at <= Unwrap(last'.ret).created_at]_vars

\* C7 witness: a row was returned although a more recently created row with a
\* past expiry is stored.
C7_Witness ==
    /\ last.op = "get_latest_active" /\ last.ret # None
    /\ \E r \in rows : /\ Expired(r, now)
                       /\ r.created_at > Unwrap(last.ret).created_at

\* C8: prune_oldest(capacity) deletes exactly max(0, count - capacity) rows,
\* none of them created after a row it keeps, returns that number, and leaves
\* the store unchanged when count <= capacity.
C8_PruneOldest ==
    [][CallStep("prune_oldest")
        => LET count == Cardinality(rows)
               excess == IF count > last'.max_count
                         THEN count - last'.max_count ELSE 0
           IN  /\ rows' \subseteq rows
               /\ Cardinality(rows \ rows') = excess
               /\ last'.ret = excess
               /\ \A d \in rows \ rows' : \A k \in rows' :
                     d.created_at <= k.created_at
               /\ (count <= last'.max_count => rows' = rows)]_vars

\* C8 witness: prune_oldest has deleted the older of two rows.
C8_Witness ==
    /\ last.op = "prune_oldest" /\ last.ret = 1
    /\ \E k \in rows : k.created_at > 0

\* C4: after N pairwise-distinct entries are saved one after another under a
\* fixed capacity K < N, without expiries and without max_age, the store holds
\* exactly K entries, and no dropped entry was created after a kept one: the
\* kept entries are the K most recently created.
C4_FifoEviction ==
    fifo.on =>
      LET log == fifo.log
          N == Len(log)
          K == fifo.max_history
          kept == {k \in 1..N : \E r \in rows : r.content = log[k].content}
      IN  /\ \A r \in rows : \E k \in 1..N :
                r.content = log[k].content /\ r.created_at = log[k].created_at
          /\ Cardinality(rows) = IF N > K THEN K ELSE N
          /\ Cardinality(kept) = Cardinality(rows)
          /\ \A k \in kept : \A d \in (1..N) \ kept :
                log[d].created_at <= log[k].created_at
          /\ (\A k \in 1..(N - 1) : log[k].created_at < log[k + 1].created_at)
                => kept = {k \in 1..N : k > N - K}

\* C4 witness: three entries saved at three instants under capacity 2.
C4_Witness ==
    /\ fifo.on /\ fifo.max_history = 2 /\ Len(fifo.log) = 3
    /\ fifo.log[1].created_at < fifo.log[2].created_at
    /\ fifo.log[2].created_at < fifo.log[3].created_at

\* The rule matches the entry as it was handed to apply_rules
MatchesEntry(rule, entry) ==
    rule_matches(rule, entry.source_app, text(entry.content),
                 entry.content.kind = "image", entry.source_title)

\* The TTL of the last rule with a TTL among the selected positions
LastTtl(rules, selected) ==
    LET S == {k \in selected : rules[k].ttl # None}
    IN  IF S = {} THEN None
        ELSE rules[CHOOSE k \in S : \A j \in S : j <= k].ttl

\* C9 as stated: the result TTL is the TTL of the last rule that matches the
\* entry and specifies a TTL, absent iff there is none.
C9_AsStated ==
    ar.pc = "done" =>
      LET onEntry == {k \in 1..Len(ar.rules) : MatchesEntry(ar.rules[k], ar.entry)}
      IN  ar.result.ttl = LastTtl(ar.rules, onEntry)

\* C9 amended: the result TTL is the TTL of the last rule that specifies a TTL
\* and matched during the pass, its content regex being tested on the running
\* text left by the commands of the rules before it; absent iff there is none.
C9_LastTtlWins ==
    ar.pc = "done" =>
      LET inPass == {k \in 1..Len(ar.seen) : ar.seen[k].matched}
      IN  /\ Len(ar.seen) = Len(ar.rules)
          /\ ar.result.ttl = LastTtl(ar.rules, inPass)

\* C9 witness: two rules with different TTLs both matched; the pass is over.
C9_Witness ==
    /\ ar.pc = "done" /\ Len(ar.rules) = 2
    /\ ar.seen[1].matched /\ ar.seen[2].matched
    /\ ar.rules[1].ttl = Some(30) /\ ar.rules[2].ttl = Some(60)

\* C10: a rule matches iff every condition it specifies holds: the source
\* application is present and equal to the expected string, the text is present
\* and matched by the content regex, the window title is present and matched by
\* the title regex.
C10_Conjunction ==
    ar.pc \in {"loop", "done"} =>
      \A k \in 1..Len(ar.seen) :
        LET rule == ar.rules[k]
            txt == ar.seen[k].text
            app_holds == ar.entry.source_app = rule.source_app
            content_holds == /\ txt # None
                             /\ is_match(Unwrap(rule.content_regex), Unwrap(txt))
            title_holds == /\ ar.entry.source_title # None
                           /\ is_match(Unwrap(rule.source_title_regex),
                                       Unwrap(ar.entry.source_title))
        IN  ar.seen[k].matched =
              /\ (rule.source_app # None => app_holds)
              /\ (rule.content_regex # None => content_holds)
              /\ (rule.source_title_regex # None => title_holds)

\* C10 witness: a rule with two conditions was tested on an entry without a
\* source application whose text its regex matches, and did not match.
C10_Witness ==
    /\ ar.pc = "done" /\ Len(ar.rules) = 1
    /\ ar.entry.source_app = None
    /\ ar.rules[1].source_app # None /\ ar.rules[1].content_regex = Some("^a")
    /\ ar.seen[1].text = Some("ab")
    /\ ~ar.seen[1].matched

\* C11: a rule that specifies a content regex never matches an image entry,
\* whatever its pattern and its other conditions, and runs no command on it;
\* when every rule of the list has a content regex, an image entry gets neither
\* a TTL nor a transformed text.
C11_ImageRegexExclusion ==
    (ar.pc \in {"loop", "done"} /\ ar.entry.content.kind = "image") =>
      /\ \A k \in 1..Len(ar.seen) :
            ar.rules[k].content_regex # None =>
              ~ar.seen[k].matched /\ ar.seen[k].ran = "none"
      /\ (ar.pc = "done"
            /\ \A k \in 1..Len(ar.rules) : ar.rules[k].content_regex # None)
           => ar.result.ttl = None /\ ar.result.transformed_text = None

\* C11 witness: an image entry from Firefox titled "Bank" went through a rule
\* with a TTL whose source_app and title conditions hold and which has a
\* content regex.
C11_Witness ==
    /\ ar.pc = "done" /\ ar.entry.content.kind = "image"
    /\ ar.entry.source_app = Some("Firefox")
    /\ ar.entry.source_title = Some("Bank")
    /\ Len(ar.rules) = 1
    /\ ar.rules[1].source_app = Some("Firefox")
    /\ ar.rules[1].source_title_regex = Some("Bank")
    /\ ar.rules[1].content_regex # None
    /\ ar.rules[1].ttl # None

\* C12: a rule whose only condition is a source-title regex matches an entry
\* iff the entry has a window title that the regex matches, for text entries
\* and image entries alike.
C12_TitleInclusive ==
    ar.pc \in {"loop", "done"} =>
      \A k \in 1..Len(ar.seen) :
        (/\ ar.rules[k].source_app = None
         /\ ar.rules[k].content_regex = None
         /\ ar.rules[k].source_title_regex # None)
        => ar.seen[k].matched =
             /\ ar.entry.source_title # None
             /\ is_match(Unwrap(ar.rules[k].source_title_regex),
                         Unwrap(ar.entry.source_title))

\* C12 witness: a rule with only a title regex matched an image entry.
C12_Witness ==
    /\ ar.pc = "done" /\ ar.entry.content.kind = "image"
    /\ Len(ar.rules) = 1
    /\ ar.rules[1].source_app = None /\ ar.rules[1].content_regex = None
    /\ ar.rules[1].source_title_regex = Some("Bank")
    /\ ar.seen[1].matched

\* The running text after the first k rules of the pass, computed from the
\* entry's text and the commands that succeeded
Composed(k) ==
    LET f[j \in 0..k] ==
          IF j = 0 THEN ar.entry.content.text
          ELSE IF ar.seen[j].ran = "ok"
               THEN stdout_of(Unwrap(ar.rules[j].command), f[j - 1])
               ELSE f[j - 1]
    IN  f[k]

\* C13: for a text entry the commands of the matching rules run in definition
\* order, each on the output of the previous successful command; the text the
\* result stands for (its transformed text, absent when nothing changed) is the
\* composition of the successful commands applied to the original text.
C13_CommandChain ==
    (ar.pc \in {"loop", "done"} /\ ar.entry.content.kind = "text") =>
      /\ \A k \in 1..Len(ar.seen) :
            /\ ar.seen[k].text = Some(Composed(k - 1))
            /\ (ar.seen[k].ran # "none") =
                 (ar.seen[k].matched /\ ar.rules[k].command # None)
      /\ ar.pc = "done" =>
            ar.result.transformed_text =
              IF Composed(Len(ar.seen)) # ar.entry.content.text
              THEN Some(Composed(Len(ar.seen))) ELSE None

\* C13 witness: on the text "ab" the to-upper command and then the swap-case
\* command both succeeded: the text is "ab" again and nothing is reported.
C13_Witness ==
    /\ ar.pc = "done" /\ ar.entry.content = TextContent("ab")
    /\ Len(ar.rules) = 2
    /\ ar.rules[1].command = Some(<<"tr", "a-z", "A-Z">>)
    /\ ar.rules[2].command = Some(<<"tr", "a-zA-Z", "A-Za-z">>)
    /\ ar.seen[1].ran = "ok" /\ ar.seen[2].ran = "ok"
    /\ ar.seen[2].text = Some("AB")

\* C14: a command step that fails leaves the running text as it was, and the
\* pass goes on with the next rule on that text, through all the rules; if
\* every command step fails the result carries no transformed text.
C14_FailureIsolation ==
    ar.pc \in {"loop", "done"} =>
      /\ \A k \in 1..Len(ar.seen) :
            ar.seen[k].ran = "err" =>
              /\ k < Len(ar.seen) => ar.seen[k + 1].text = ar.seen[k].text
              /\ (k = Len(ar.seen) /\ ar.pc = "loop")
                    => ar.current_text = ar.seen[k].text
      /\ ar.pc = "done" =>
            /\ Len(ar.seen) = Len(ar.rules)
            /\ (\A k \in 1..Len(ar.seen) : ar.seen[k].ran # "ok")
                  => ar.result.transformed_text = None

\* C14 witness: the command of the first rule failed, the command of the
\* second ran on the unchanged text and changed it.
C14_Witness ==
    /\ ar.pc = "done" /\ Len(ar.rules) = 2
    /\ ar.seen[1].ran = "err" /\ ar.seen[2].ran = "ok"
    /\ ar.seen[2].text = text(ar.entry.content)
    /\ ar.result.transformed_text # None

(* ------------------------------------------------------------------ *)
(* The watch loop (cli/watch.rs)                                        *)
(* ------------------------------------------------------------------ *)

\* ClipboardContent::Empty; Text and Image are written as TextContent(t)
\* and ImageContent
EmptyContent == [kind |-> "empty"]

\* What a read of the copy/paste buffer can return, and what a read of the
\* primary buffer can return (read_selection reads images for the copy/paste
\* buffer only)
ClipboardContents == {TextContent(t) : t \in Texts} \cup {ImageContent, EmptyContent}
PrimaryContents == {TextContent(t) : t \in Texts} \cup {EmptyContent}

\* ClipboardContent::content_hash(): the hash of the bytes, None when empty
clipboard_content_hash(content) ==
    IF content.kind = "empty" THEN None ELSE Some(compute_hash(content))

\* The buffer as a later read sees it after a write of the text: an empty
\* text leaves an empty selection
written_text(t) == IF t = "" THEN EmptyContent ELSE TextContent(t)

\* Sizes in bytes: texts of two bytes, the image of four RGBA bytes
rgba_len(content) == 4
content_size_bytes(content) == IF content.kind = "text" THEN Len(content.text) ELSE 3

\* max_size of a configuration is 8 (everything fits) or 1 (nothing fits)

SyncModes == {"to-clipboard", "to-primary", "both", "disabled"}

\* TTL of the watch rules, in clock ticks
WatchTtl == 1

\* The rule lists of the watch configurations: none; a TTL on texts in ^a; a
\* TTL and a command (to upper case) on texts in ^a
WatchRule(regex, command) ==
    [source_app |-> None, content_regex |-> regex, source_title_regex |-> None,
     ttl |-> Some(WatchTtl), command |-> command]
WatchRuleLists ==
    {<< >>,
     <<WatchRule(Some("^a"), None)>>,
     <<WatchRule(Some("^a"), Some(<<"tr", "a-z", "A-Z">>))>>}

\* detect_source_app(): the window the copy was made in
SourceInfos == {[class |-> None, title |-> t] : t \in {None, Some("Bank")}}

\* The state of a rule pass after one rule
rule_step(rule, entry, s) ==
    IF ~rule_matches(rule, entry.source_app, s.current_text,
                     entry.content.kind = "image", entry.source_title)
    THEN {s}
    ELSE LET input == command_input(text(entry.content), s.current_text) IN
         IF rule.command = None \/ input = None
         THEN {[s EXCEPT !.ttl = ttl_action(@, rule)]}
         ELSE {[ttl |-> ttl_action(s.ttl, rule),
                current_text |-> command_action(s.current_text, out)] :
                  out \in run_command(Unwrap(rule.command), Unwrap(input))}

\* apply_rules as a function: the possible ActionResults of a pass at time t
apply_rules(rules, entry, t) ==
    LET st[k \in 0..Len(rules)] ==
            IF k = 0
            THEN {[ttl |-> None, current_text |-> text(entry.content)]}
            ELSE UNION {rule_step(rules[k], entry, s) : s \in st[k - 1]}
        original == text(entry.content)
    IN  {[transformed_text |->
              IF original # None /\ s.current_text # None
                 /\ original # s.current_text
              THEN s.current_text ELSE None,
          expires_at |-> IF s.ttl = None THEN None ELSE Some(t + Unwrap(s.ttl)),
          ttl |-> s.ttl] : s \in st[Len(rules)]}

\* build_entry: the candidate entries of a changed buffer content; None for
\* empty content, for an image over the size limit, or when PNG encoding fails
build_entry(content, max_size) ==
    CASE content.kind = "text" ->
            {Some([content |-> content, source_app |-> info.class,
                   source_title |-> info.title, expires_at |-> None]) :
                info \in SourceInfos}
      [] content.kind = "image" ->
            IF rgba_len(content) > max_size
            THEN {None}
            ELSE {None} \cup
                 {Some([content |-> content, source_app |-> info.class,
                        source_title |-> info.title, expires_at |-> None]) :
                     info \in SourceInfos}
      [] OTHER -> {None}

\* apply_actions: the entries after the rule pass, each with the TTL returned
apply_actions(rules, entry, t) ==
    IF rules = << >>
    THEN {[entry |-> entry, ttl |-> None]}
    ELSE {[entry |-> [entry EXCEPT
                        !.content = IF result.transformed_text # None
                                    THEN TextContent(Unwrap(result.transformed_text))
                                    ELSE @,
                        !.expires_at = result.expires_at],
           ttl |-> result.ttl] : result \in apply_rules(rules, entry, t)}

\* A store call of the loop that fails (database busy or unreadable) leaves
\* the table as it was.  A write to a selection buffer takes effect.
StoreOutcomes == {"ok", "err"}

\* Faulty variant: save_if_fits without its size check
save_if_fits_unchecked(db, sq, entry, max_size, max_history, t) ==
    {[rows |-> db, seq |-> sq, saved |-> FALSE]} \cup
    {[rows |-> out.rows, seq |-> out.seq, saved |-> out.ok] :
       out \in save_or_update(db, sq, entry, max_history, None, t)}

\* save_if_fits: the possible tables and id counters afterwards; saved tells
\* whether save_or_update ran and succeeded
save_if_fits(db, sq, entry, max_size, max_history, t) ==
    IF content_size_bytes(entry.content) > max_size
    THEN {[rows |-> db, seq |-> sq, saved |-> FALSE]}
    ELSE {[rows |-> db, seq |-> sq, saved |-> FALSE]} \cup
         {[rows |-> out.rows, seq |-> out.seq, saved |-> out.ok] :
            out \in save_or_update(db, sq, entry, max_history, None, t)}

\* Faulty variant: the stored expiry itself taken as the duration
pick_up_db_expiry_absolute(db, hash, t, outcome) ==
    LET found == find_by_hash(db, hash) IN
    IF outcome = "err" \/ found = None \/ Unwrap(found).expires_at = None
    THEN None
    ELSE Some(Unwrap(Unwrap(found).expires_at))

\* pick_up_db_expiry when find_by_hash has the given outcome: the remaining
\* duration of the stored entry's expiry; None when the lookup fails, finds
\* nothing, or the entry has no expiry
pick_up_db_expiry_of(db, hash, t, outcome) ==
    LET found == find_by_hash(db, hash) IN
    IF outcome = "err" \/ found = None \/ Unwrap(found).expires_at = None
    THEN None
    ELSE LET expires == Unwrap(Unwrap(found).expires_at) IN
         IF expires > t THEN Some(expires - t) ELSE Some(0)

\* pick_up_db_expiry: its possible results
pick_up_db_expiry(db, hash, t) ==
    {pick_up_db_expiry_of(db, hash, t, outcome) : outcome \in StoreOutcomes}

\* Faulty variant: clearing the tracker's instant and keeping a hash
update_expiry_tracking_keep_hash(ttl, hash, t) ==
    IF ttl # None
    THEN [current_expiry |-> Some(t + Unwrap(ttl)), current_expiry_hash |-> Some(hash)]
    ELSE [current_expiry |-> None, current_expiry_hash |-> Some(hash)]

\* update_expiry_tracking: the tracker after a processed change
update_expiry_tracking(ttl, hash, t) ==
    IF ttl # None
    THEN [current_expiry |-> Some(t + Unwrap(ttl)), current_expiry_hash |-> Some(hash)]
    ELSE [current_expiry |-> None, current_expiry_hash |-> None]

\* apply_save_and_track: the possible outcomes of processing an entry
apply_save_and_track(db, sq, rules, entry0, max_size, max_history, t) ==
    UNION {UNION {
        {LET ttl == IF lookup = "skipped" THEN aa.ttl
                    ELSE pick_up_db_expiry_of(sv.rows, content_hash(aa.entry),
                                              t, lookup)
         IN  [rows |-> sv.rows, seq |-> sv.seq, saved |-> sv.saved,
              entry |-> aa.entry, rule_ttl |-> aa.ttl, ttl |-> ttl,
              lookup |-> lookup,
              tracking |-> update_expiry_tracking(ttl, content_hash(aa.entry), t)] :
            lookup \in IF aa.ttl # None THEN {"skipped"} ELSE StoreOutcomes}
        : sv \in save_if_fits(db, sq, aa.entry, max_size, max_history, t)}
      : aa \in apply_actions(rules, entry0, t)}

\* Faulty variant: an image handed back for mirroring as an empty text
sync_text_any(need_sync, entry) ==
    IF ~need_sync THEN None
    ELSE IF entry.content.kind = "text" THEN Some(entry.content.text)
    ELSE Some("")

\* if need_sync { if let EntryContent::Text(t) = entry.content { return Some(t) } }
sync_text_of(need_sync, entry) ==
    IF need_sync /\ entry.content.kind = "text"
    THEN Some(entry.content.text) ELSE None

\* process_change_with_sync: the outcomes of a changed buffer content, with
\* the text handed back for mirroring; processed is None when build_entry
\* gave no entry
process_change_with_sync(db, sq, rules, content, need_sync, max_size, max_history, t) ==
    UNION {
        IF e = None
        THEN {[rows |-> db, seq |-> sq, processed |-> None, saved |-> FALSE,
               rule_ttl |-> None, keep_tracking |-> TRUE,
               lookup |-> "skipped",
               tracking |-> update_expiry_tracking(None, None, t),
               sync_text |-> None]}
        ELSE {[rows |-> o.rows, seq |-> o.seq, processed |-> Some(o.entry),
               saved |-> o.saved, rule_ttl |-> o.rule_ttl, keep_tracking |-> FALSE,
               lookup |-> o.lookup,
               tracking |-> o.tracking,
               sync_text |-> sync_text_of(need_sync, o.entry)] :
                o \in apply_save_and_track(db, sq, rules, Unwrap(e), max_size,
                                           max_history, t)}
      : e \in build_entry(content, max_size)}

\* Bounds of the watch model: the user changes a selection at most MaxCopies
\* times; prune_interval in clock ticks
MaxCopies == 2
PruneInterval == 1

\* Faulty variant: the expired content taken to be in the buffer whatever is read
expired_still_in_clipboard_always(current_cb_hash, expired_hash) == TRUE

\* check_expiry_and_restore: is the expired entry still in the buffer?
expired_still_in_clipboard(current_cb_hash, expired_hash) ==
    /\ current_cb_hash # None /\ expired_hash # None
    /\ current_cb_hash = expired_hash

\* Faulty variant: restoration that always clears the buffer
restore_write_clear(latest) ==
    Some([content |-> written_text(""),
          clipboard_hash |-> compute_hash(TextContent("")),
          restored_text |-> ""])

\* check_expiry_and_restore after get_latest_active: what is written to the
\* copy/paste buffer and the RestoreResult; latest is the Result of the query
restore_write(latest) ==
    IF ~latest.ok
    THEN None
    ELSE IF latest.value = None
    THEN Some([content |-> written_text(""),
               clipboard_hash |-> compute_hash(TextContent("")),
               restored_text |-> ""])
    ELSE LET entry == Unwrap(latest.value) IN
         Some([content |-> entry.content,
               clipboard_hash |-> entry.content_hash,
               restored_text |-> IF entry.content.kind = "text"
                                 THEN entry.content.text ELSE ""])

\* Faulty variant: mirroring to the primary buffer in every mode with sync
sync_to_primary_always(sync_mode) == sync_mode # "disabled"

\* matches!(sync_mode, SyncMode::Both | SyncMode::ToPrimary)
sync_to_primary(sync_mode) == sync_mode \in {"both", "to-primary"}

\* matches!(sync_mode, SyncMode::Both | SyncMode::ToClipboard)
sync_to_clipboard(sync_mode) == sync_mode \in {"both", "to-clipboard"}

\* The background writers of write_selection_text: for each selection buffer,
\* the content a spawned thread was handed and has not set yet
NoWriters == [primary |-> None, clipboard |-> None]

\* write_selection_text followed by the join of the previous handle: the buffer
\* and the writer of a selection after `content` was handed over.  Where the
\* writers are not followed (deferred is FALSE) the text is in the buffer at
\* once.  Otherwise the new thread has yet to set it; if the previous thread
\* had not set its text either, the join returns after that thread set it and
\* lost the selection to the new one, or after it failed to open the clipboard.
\* op, seen and copies record which step handed the text over, the last-seen
\* hash of the buffer at that moment and how many changes the user had made.
hand_to_writer(deferred, slot, buffer, content, op, seen, copies) ==
    LET handed == Some([content |-> content, op |-> op, seen |-> seen,
                        copies |-> copies])
    IN  IF ~deferred
        THEN {[buffer |-> content, slot |-> None]}
        ELSE IF slot = None
        THEN {[buffer |-> buffer, slot |-> handed]}
        ELSE {[buffer |-> content, slot |-> None],
              [buffer |-> buffer, slot |-> handed]}

\* The watch loop before its first iteration (run, lines 374-418, and the
\* locals of run_disabled / run_sync): empty buffers, empty history
WatchStart(sync_mode, rules, max_size) ==
    [pc |-> "head", sync_mode |-> sync_mode, rules |-> rules,
     max_size |-> max_size, running |-> TRUE,
     clipboard |-> EmptyContent, primary |-> EmptyContent,
     last_clipboard_hash |-> None, last_primary_hash |-> None,
     current_expiry |-> None, current_expiry_hash |-> None,
     last_prune |-> 0, copies |-> 0, did |-> [op |-> "none"],
     deferred |-> FALSE, pending |-> NoWriters]

\* The configurations: every sync mode with every rule list under a max_size
\* that admits everything, and two configurations whose max_size admits nothing
WatchConfigs ==
    {WatchStart(m, rs, 8) : m \in SyncModes, rs \in WatchRuleLists}
        \cup {WatchStart("both", <<WatchRule(Some("^a"), None)>>, 1),
              WatchStart("disabled", << >>, 1)}

InitWatch ==
    /\ rows = {} /\ seq = 0 /\ now = 0 /\ last = NoCall
    /\ inflight = None /\ fifo = FifoIdle /\ ar = RulesIdle
    /\ proc = ProcIdle /\ handles = HandlesIdle /\ cfg = CfgIdle
    /\ watch \in WatchConfigs

\* Configurations around the size limit: a rule whose command makes the text
\* one byte longer (sed 's/$/!/'), under a max_size of 2 (the copied text fits,
\* the transformed one does not) and of 3 (the image's PNG would fit, its RGBA
\* bytes do not)
SizeConfigs ==
    {WatchStart(m, <<WatchRule(Some("^a"), Some(<<"sed", "s/$/!/">>))>>, sz) :
        m \in {"disabled", "both"}, sz \in {2, 3}}

InitSize ==
    /\ rows = {} /\ seq = 0 /\ now = 0 /\ last = NoCall
    /\ inflight = None /\ fifo = FifoIdle /\ ar = RulesIdle
    /\ proc = ProcIdle /\ handles = HandlesIdle /\ cfg = CfgIdle
    /\ watch \in SizeConfigs

\* Configurations with two TTLs: a short one on texts in ^a and one on texts
\* in ^A that outlasts the run
LongTtl == 5
RestoreRules ==
    <<WatchRule(Some("^a"), None),
      [WatchRule(Some("^A"), None) EXCEPT !.ttl = Some(LongTtl)]>>
RestoreConfigs ==
    {WatchStart(m, RestoreRules, 8) : m \in {"disabled", "both"}}

InitRestore ==
    /\ rows = {} /\ seq = 0 /\ now = 0 /\ last = NoCall
    /\ inflight = None /\ fifo = FifoIdle /\ ar = RulesIdle
    /\ proc = ProcIdle /\ handles = HandlesIdle /\ cfg = CfgIdle
    /\ watch \in RestoreConfigs

\* Configurations that mirror, with the background writers followed: a text
\* handed to write_selection_text is set by its thread at some later moment
MirrorConfigs ==
    {[WatchStart(m, << >>, 8) EXCEPT !.deferred = TRUE] :
        m \in {"both", "to-primary"}}

InitMirror ==
    /\ rows = {} /\ seq = 0 /\ now = 0 /\ last = NoCall
    /\ inflight = None /\ fifo = FifoIdle /\ ar = RulesIdle
    /\ proc = ProcIdle /\ handles = HandlesIdle /\ cfg = CfgIdle
    /\ watch \in MirrorConfigs

has_ttl_rules(rules) == \E k \in 1..Len(rules) : rules[k].ttl # None

\* The loop condition, the sleep and maybe_prune
WatchHead ==
    /\ watch.pc = "head"
    /\ IF ~watch.running
       THEN /\ watch' = [watch EXCEPT !.pc = "stopped", !.did = [op |-> "exit"]]
            /\ rows' = rows
       ELSE IF ~has_ttl_rules(watch.rules) \/ now - watch.last_prune < PruneInterval
       THEN /\ watch' = [watch EXCEPT !.pc = "expiry", !.did = [op |-> "head"]]
            /\ rows' = rows
       ELSE \E outcome \in StoreOutcomes :
            /\ rows' = IF outcome = "ok" THEN prune_expired(rows, None, now).rows
                       ELSE rows
            /\ watch' = [watch EXCEPT !.pc = "expiry", !.last_prune = now,
                                      !.did = [op |-> "head"]]
    /\ UNCHANGED <<seq, now, last, inflight, fifo, ar, proc, handles, cfg>>

\* check_expiry_and_restore and what the loop does with its result
CheckExpiryAndRestore ==
    /\ watch.pc = "expiry"
    /\ IF watch.current_expiry = None \/ now < Unwrap(watch.current_expiry)
       THEN /\ watch' = [watch EXCEPT !.pc = "clipboard",
                            !.did = [op |-> "check_expiry_and_restore",
                                     elapsed |-> FALSE, reads |-> {},
                                     writes |-> << >>]]
            /\ rows' = rows
       ELSE \E pruned \in StoreOutcomes, read_ok \in BOOLEAN :
            LET expired_hash == watch.current_expiry_hash
                db == IF pruned = "ok" THEN prune_expired(rows, None, now).rows
                      ELSE rows
                current_cb_hash == IF read_ok
                                   THEN clipboard_content_hash(watch.clipboard)
                                   ELSE None
                still == expired_still_in_clipboard(current_cb_hash, expired_hash)
            IN  \E latest \in {[ok |-> FALSE]} \cup
                           {[ok |-> TRUE, value |-> v] :
                                v \in get_latest_active(db, now)} :
                LET result == IF still THEN restore_write(latest) ELSE None
                    to_primary == result # None /\ watch.sync_mode # "disabled"
                                    /\ sync_to_primary(watch.sync_mode)
                    writes ==
                        (IF result # None
                         THEN <<[selection |-> "clipboard",
                                 content |-> Unwrap(result).content]>>
                         ELSE << >>)
                        \o (IF to_primary
                            THEN <<[selection |-> "primary",
                                    content |-> written_text(Unwrap(result).restored_text)]>>
                            ELSE << >>)
                IN  \E h \in IF to_primary
                              THEN hand_to_writer(watch.deferred,
                                        watch.pending.primary, watch.primary,
                                        written_text(Unwrap(result).restored_text),
                                        "check_expiry_and_restore",
                                        watch.last_primary_hash, watch.copies)
                              ELSE {[buffer |-> watch.primary,
                                     slot |-> watch.pending.primary]} :
                    /\ rows' = db
                    /\ watch' = [watch EXCEPT
                          !.pc = "clipboard",
                          !.current_expiry = None,
                          !.current_expiry_hash = None,
                          !.last_prune = now,
                          !.clipboard = IF result # None
                                        THEN Unwrap(result).content ELSE @,
                          !.last_clipboard_hash =
                                IF result # None
                                THEN Some(Unwrap(result).clipboard_hash) ELSE @,
                          !.primary = h.buffer,
                          !.pending = [@ EXCEPT !.primary = h.slot],
                          !.last_primary_hash =
                                IF to_primary
                                THEN Some(compute_hash(TextContent(
                                            Unwrap(result).restored_text)))
                                ELSE @,
                          !.did = [op |-> "check_expiry_and_restore",
                                   elapsed |-> TRUE,
                                   reads |-> {"clipboard"},
                                   read_ok |-> read_ok,
                                   pruned |-> pruned,
                                   asked |-> still,
                                   latest |-> IF still THEN latest ELSE [ok |-> FALSE],
                                   writes |-> writes]]
    /\ UNCHANGED <<seq, now, last, inflight, fifo, ar, proc, handles, cfg>>

\* Faulty variant: the last-seen hash of the other buffer left at the hash of
\* an empty text after a mirror
mirrored_hash_empty(t) == compute_hash(TextContent(""))

\* compute_hash(text.as_bytes()): the last-seen hash set for the buffer a text
\* was mirrored to
mirrored_hash(t) == compute_hash(TextContent(t))

\* Faulty variant: the last-seen hash advanced only for content that was saved
polled_hash_if_saved(last_hash, hash, saved) == IF saved THEN hash ELSE last_hash

\* The last-seen hash of a buffer after a detected change was processed:
\* SelectionResult { hash, sync_text } in poll_clipboard and poll_primary,
\* last_hash = Some(hash) in run_disabled
polled_hash(last_hash, hash, saved) == hash

\* Faulty variant: the primary buffer polled in every iteration
after_poll_clipboard_always(synced_to_primary, next_pc) == next_pc

\* if !synced_to_primary { poll_primary ... }: where the loop goes after the
\* poll of the copy/paste buffer
after_poll_clipboard(synced_to_primary, next_pc) ==
    IF synced_to_primary THEN "head" ELSE next_pc

\* Faulty variant: a read error of the copy/paste buffer ending the loop
after_read_error_exit(pc) == "stopped"

\* Where the loop goes after a failed read of the copy/paste buffer: on with
\* the iteration (`continue` in run_disabled, an unchanged buffer in
\* poll_clipboard)
after_read_error(pc) == pc

\* The polling of the copy/paste buffer: run_disabled after the expiry check,
\* or poll_clipboard and the mirroring to the primary buffer in run_sync
PollClipboard ==
    /\ watch.pc = "clipboard"
    /\ LET next_pc == IF watch.sync_mode = "disabled" THEN "head" ELSE "primary" IN
       \E read_ok \in BOOLEAN :
       LET hash == IF read_ok THEN clipboard_content_hash(watch.clipboard) ELSE None
           changed == hash # None /\ watch.last_clipboard_hash # hash
           need_sync == watch.sync_mode # "disabled"
                            /\ sync_to_primary(watch.sync_mode)
       IN  IF ~changed
           THEN /\ watch' = [watch EXCEPT
                      !.pc = IF read_ok THEN next_pc ELSE after_read_error(next_pc),
                      !.did = [op |-> "poll_clipboard", reads |-> {"clipboard"},
                               read_ok |-> read_ok, changed |-> FALSE,
                               writes |-> << >>]]
                /\ UNCHANGED <<rows, seq, proc, handles, cfg>>
           ELSE \E o \in process_change_with_sync(rows, seq, watch.rules,
                            watch.clipboard, need_sync, watch.max_size,
                            MaxHistory, now) :
                \E h \in IF o.sync_text # None
                          THEN hand_to_writer(watch.deferred,
                                    watch.pending.primary, watch.primary,
                                    written_text(Unwrap(o.sync_text)),
                                    "poll_clipboard",
                                    watch.last_primary_hash, watch.copies)
                          ELSE {[buffer |-> watch.primary,
                                 slot |-> watch.pending.primary]} :
                /\ rows' = o.rows /\ seq' = o.seq
                /\ watch' = [watch EXCEPT
                      !.pc = after_poll_clipboard(o.sync_text # None, next_pc),
                      !.last_clipboard_hash = polled_hash(@, hash, o.saved),
                      !.current_expiry =
                            IF o.keep_tracking THEN @ ELSE o.tracking.current_expiry,
                      !.current_expiry_hash =
                            IF o.keep_tracking THEN @
                            ELSE o.tracking.current_expiry_hash,
                      !.primary = h.buffer,
                      !.pending = [@ EXCEPT !.primary = h.slot],
                      !.last_primary_hash =
                            IF o.sync_text # None
                            THEN Some(mirrored_hash(Unwrap(o.sync_text)))
                            ELSE @,
                      !.did = [op |-> "poll_clipboard", reads |-> {"clipboard"},
                               read_ok |-> TRUE, changed |-> TRUE,
                               content |-> watch.clipboard,
                               processed |-> o.processed,
                               saved |-> o.saved,
                               lookup |-> o.lookup,
                               writes |-> IF o.sync_text # None
                                          THEN <<[selection |-> "primary",
                                                  content |-> written_text(
                                                        Unwrap(o.sync_text))]>>
                                          ELSE << >>]]
    /\ UNCHANGED <<now, last, inflight, fifo, ar, proc, handles, cfg>>

\* poll_primary and the mirroring to the copy/paste buffer (run_sync, when
\* nothing was mirrored to the primary buffer in this iteration)
PollPrimary ==
    /\ watch.pc = "primary"
    /\ \E read_ok \in BOOLEAN :
       LET hash == IF read_ok THEN clipboard_content_hash(watch.primary) ELSE None
           changed == hash # None /\ watch.last_primary_hash # hash
           need_sync == sync_to_clipboard(watch.sync_mode)
       IN  IF ~changed
           THEN /\ watch' = [watch EXCEPT
                      !.pc = "head",
                      !.did = [op |-> "poll_primary", reads |-> {"primary"},
                               read_ok |-> read_ok, changed |-> FALSE,
                               writes |-> << >>]]
                /\ UNCHANGED <<rows, seq, proc, handles, cfg>>
           ELSE \E o \in process_change_with_sync(rows, seq, watch.rules,
                            watch.primary, need_sync, watch.max_size,
                            MaxHistory, now) :
                \E h \in IF o.sync_text # None
                          THEN hand_to_writer(watch.deferred,
                                    watch.pending.clipboard, watch.clipboard,
                                    written_text(Unwrap(o.sync_text)),
                                    "poll_primary",
                                    watch.last_clipboard_hash, watch.copies)
                          ELSE {[buffer |-> watch.clipboard,
                                 slot |-> watch.pending.clipboard]} :
                /\ rows' = o.rows /\ seq' = o.seq
                /\ watch' = [watch EXCEPT
                      !.pc = "head",
                      !.last_primary_hash = polled_hash(@, hash, o.saved),
                      !.current_expiry =
                            IF o.keep_tracking THEN @ ELSE o.tracking.current_expiry,
                      !.current_expiry_hash =
                            IF o.keep_tracking THEN @
                            ELSE o.tracking.current_expiry_hash,
                      !.clipboard = h.buffer,
                      !.pending = [@ EXCEPT !.clipboard = h.slot],
                      !.last_clipboard_hash =
                            IF o.sync_text # None
                            THEN Some(mirrored_hash(Unwrap(o.sync_text)))
                            ELSE @,
                      !.did = [op |-> "poll_primary", reads |-> {"primary"},
                               read_ok |-> TRUE, changed |-> TRUE,
                               content |-> watch.primary,
                               processed |-> o.processed,
                               saved |-> o.saved,
                               lookup |-> o.lookup,
                               writes |-> IF o.sync_text # None
                                          THEN <<[selection |-> "clipboard",
                                                  content |-> written_text(
                                                        Unwrap(o.sync_text))]>>
                                          ELSE << >>]]
    /\ UNCHANGED <<now, last, inflight, fifo, ar, proc, handles, cfg>>

\* The user copies something: the copy/paste buffer changes
UserCopy ==
    /\ watch.pc \in {"head", "expiry", "clipboard", "primary"}
    /\ watch.copies < MaxCopies
    /\ \E c \in ClipboardContents \ {watch.clipboard, EmptyContent} :
          watch' = [watch EXCEPT !.clipboard = c, !.copies = @ + 1]
    /\ UNCHANGED <<rows, seq, now, last, inflight, fifo, ar, proc, handles, cfg>>

\* The user selects a text: the primary buffer changes
UserSelect ==
    /\ watch.pc \in {"head", "expiry", "clipboard", "primary"}
    /\ watch.copies < MaxCopies
    /\ \E c \in PrimaryContents \ {watch.primary, EmptyContent} :
          watch' = [watch EXCEPT !.primary = c, !.copies = @ + 1]
    /\ UNCHANGED <<rows, seq, now, last, inflight, fifo, ar, proc, handles, cfg>>

\* The Ctrl+C handler: r.store(false)
Interrupt ==
    /\ watch.pc \in {"head", "expiry", "clipboard", "primary"}
    /\ watch.running
    /\ watch' = [watch EXCEPT !.running = FALSE]
    /\ UNCHANGED <<rows, seq, now, last, inflight, fifo, ar, proc, handles, cfg>>

WatchLoop == WatchHead \/ CheckExpiryAndRestore \/ PollClipboard \/ PollPrimary

\* The clock advances while the loop sleeps (std::thread::sleep(interval)); the
\* rest of an iteration takes no time
WatchTick == watch.pc = "head" /\ Tick

NextWatch == WatchLoop \/ UserCopy \/ UserSelect \/ Interrupt \/ WatchTick

SpecWatch == InitWatch /\ [][NextWatch]_vars

\* The watch loop in the configurations around the size limit
SpecSize == InitSize /\ [][NextWatch]_vars

\* The loop is a running thread and the clock advances: weak fairness of the
\* loop's steps and of the clock.  The user and the interrupt are free.
SpecWatchLive ==
    InitWatch /\ [][NextWatch]_vars /\ WF_vars(WatchLoop) /\ WF_vars(WatchTick)

\* A writer thread sets its text: cb.set().wait().clipboard(kind).text(text)
WriterSet ==
    /\ watch.pc # "stopped"
    /\ \E s \in {"primary", "clipboard"} :
        /\ watch.pending[s] # None
        /\ watch' = [watch EXCEPT
                ![s] = Unwrap(watch.pending[s]).content,
                !.pending = [@ EXCEPT ![s] = None]]
    /\ UNCHANGED <<rows, seq, now, last, inflight, fifo, ar, proc, handles, cfg>>

\* A writer thread fails to open the clipboard and returns (Clipboard::new)
WriterFail ==
    /\ watch.pc # "stopped"
    /\ \E s \in {"primary", "clipboard"} :
        /\ watch.pending[s] # None
        /\ watch' = [watch EXCEPT !.pending = [@ EXCEPT ![s] = None]]
    /\ UNCHANGED <<rows, seq, now, last, inflight, fifo, ar, proc, handles, cfg>>

NextMirror == NextWatch \/ WriterSet \/ WriterFail

\* The watch loop with the background writers followed
SpecMirror == InitMirror /\ [][NextMirror]_vars

\* The watch loop under the two TTLs, with fairness of the loop and the clock
SpecRestoreLive ==
    InitRestore /\ [][NextWatch]_vars /\ WF_vars(WatchLoop) /\ WF_vars(WatchTick)

(* ------------------------------------------------------------------ *)
(* Properties of the watch loop                                         *)
(* ------------------------------------------------------------------ *)

\* The step is a check_expiry_and_restore that found the tracked instant elapsed
ExpiryElapsedStep ==
    /\ watch.pc = "expiry" /\ watch'.pc = "clipboard"
    /\ watch.current_expiry # None /\ now >= Unwrap(watch.current_expiry)

\* C15: when the tracked TTL instant has elapsed and the content observed in
\* the copy/paste buffer does not have the tracked hash (it differs, the read
\* failed, or the buffer is empty), check_expiry_and_restore writes to no
\* selection buffer.
C15_RestorationSafety ==
    [][(/\ ExpiryElapsedStep
        /\ \/ ~watch'.did.read_ok
           \/ clipboard_content_hash(watch.clipboard) # watch.current_expiry_hash)
       => /\ watch'.did.writes = << >>
          /\ watch'.clipboard = watch.clipboard
          /\ watch'.primary = watch.primary]_vars

\* C15 witness: the tracked instant elapsed while the buffer, read
\* successfully, held a text other than the tracked one; nothing was written.
C15_Witness ==
    /\ watch.pc = "clipboard"
    /\ watch.did.op = "check_expiry_and_restore"
    /\ watch.did.elapsed /\ watch.did.read_ok /\ ~watch.did.asked
    /\ watch.clipboard.kind = "text"
    /\ watch.did.writes = << >>

TtlGiven(c) ==
    /\ watch.pc \in {"head", "primary"}
    /\ watch.did.op = "poll_clipboard" /\ watch.did.changed
    /\ watch.did.content = c /\ watch.did.processed # None
    /\ watch.current_expiry # None
    /\ Unwrap(watch.current_expiry) <= MaxTime

\* C17: in every sync mode and for every rule list, once a change of the
\* copy/paste buffer processed by the loop has received a TTL, the buffer
\* eventually holds something else (or the loop has been stopped): content
\* still there when the TTL elapses is replaced by the loop.
C17_AsStated ==
    \A c \in ClipboardContents \ {EmptyContent} :
        TtlGiven(c) ~> (watch.clipboard # c \/ watch.pc = "stopped")

\* A step of the loop (every step of the loop moves it on; the user, the
\* interrupt and the clock do not)
LoopStep == watch'.pc # watch.pc

\* The step processed a text change of the given selection buffer
TextChangeStep(op) ==
    /\ LoopStep
    /\ watch'.did.op = op /\ watch'.did.changed
    /\ watch'.did.content.kind = "text"
    /\ watch'.did.processed # None

\* C18: a processed text change of the copy/paste buffer is written to the
\* primary buffer iff the mode is to-primary or both; a processed text change
\* of the primary buffer is written to the copy/paste buffer iff the mode is
\* to-clipboard or both; what is written is the text of the processed entry;
\* in disabled mode no step of the loop reads or writes the primary buffer.
C18_SyncDirections ==
    [][/\ TextChangeStep("poll_clipboard") =>
            LET mirrored == <<[selection |-> "primary",
                               content |-> Unwrap(watch'.did.processed).content]>>
            IN  IF watch.sync_mode \in {"to-primary", "both"}
                THEN watch'.did.writes = mirrored
                        /\ watch'.primary = mirrored[1].content
                ELSE watch'.did.writes = << >> /\ watch'.primary = watch.primary
       /\ TextChangeStep("poll_primary") =>
            LET mirrored == <<[selection |-> "clipboard",
                               content |-> Unwrap(watch'.did.processed).content]>>
            IN  IF watch.sync_mode \in {"to-clipboard", "both"}
                THEN watch'.did.writes = mirrored
                        /\ watch'.clipboard = mirrored[1].content
                ELSE watch'.did.writes = << >> /\ watch'.clipboard = watch.clipboard
       /\ (LoopStep /\ watch.sync_mode = "disabled") =>
            /\ watch'.pc # "primary"
            /\ watch'.primary = watch.primary
            /\ watch'.last_primary_hash = watch.last_primary_hash
            /\ watch'.did.op \in {"check_expiry_and_restore", "poll_clipboard"} =>
                  /\ "primary" \notin watch'.did.reads
                  /\ \A k \in 1..Len(watch'.did.writes) :
                        watch'.did.writes[k].selection # "primary"]_vars

\* C18 witness: in to-primary mode, with another text already in the history,
\* a text change of the copy/paste buffer was processed and its text written
\* to the primary buffer.
C18_Witness ==
    /\ watch.sync_mode = "to-primary"
    /\ watch.did.op = "poll_clipboard" /\ watch.did.changed
    /\ watch.did.processed # None
    /\ watch.did.content = TextContent("AB")
    /\ watch.did.writes = <<[selection |-> "primary", content |-> TextContent("AB")]>>
    /\ watch.primary = TextContent("AB")
    /\ \E r \in rows : r.content = TextContent("ab")

\* C19: in every sync mode a detected image change causes no write to any
\* selection buffer; an image over the size limit gives no entry and leaves
\* the history alone; an image within the limit that gave an entry is handed
\* to save_or_update, and the history afterwards is the result of that call
\* (or unchanged when the call failed).
C19_ImageNotMirrored ==
    [][(/\ LoopStep
        /\ watch'.did.op = "poll_clipboard" /\ watch'.did.changed
        /\ watch'.did.content = ImageContent)
       => /\ watch'.did.writes = << >>
          /\ watch'.primary = watch.primary
          /\ watch'.clipboard = watch.clipboard
          /\ rgba_len(ImageContent) > watch.max_size
                => watch'.did.processed = None
          /\ watch'.did.processed = None => rows' = rows /\ seq' = seq
          /\ watch'.did.processed # None =>
                LET entry == Unwrap(watch'.did.processed) IN
                /\ entry.content = ImageContent
                /\ IF watch'.did.saved
                   THEN \E out \in save_or_update(rows, seq, entry, MaxHistory,
                                                   None, now) :
                            out.ok /\ rows' = out.rows /\ seq' = out.seq
                   ELSE rows' = rows /\ seq' = seq]_vars

\* C19 witness: in mode both, with a text in the primary buffer that the loop
\* has seen, an image change of the copy/paste buffer was just saved to the
\* history and nothing was written.
C19_Witness ==
    /\ watch.sync_mode = "both" /\ watch.pc = "primary"
    /\ watch.last_primary_hash = clipboard_content_hash(watch.primary)
    /\ watch.did.op = "poll_clipboard" /\ watch.did.changed
    /\ watch.did.content = ImageContent
    /\ watch.did.processed # None /\ watch.did.saved
    /\ watch.did.writes = << >>
    /\ watch.primary.kind = "text"
    /\ \E r \in rows : r.content = ImageContent /\ r.created_at = now

C21_SizeLimit ==
    /\ [](watch.pc # "off" =>
            \A r \in rows : content_size_bytes(r.content) <= watch.max_size)
    /\ [][(/\ LoopStep
            /\ watch'.did.op = "poll_clipboard" /\ watch'.did.changed
            /\ watch'.did.content = ImageContent
            /\ rgba_len(ImageContent) > watch.max_size)
           => /\ watch'.did.processed = None
              /\ rows' = rows /\ seq' = seq
              /\ watch'.current_expiry = watch.current_expiry
              /\ watch'.current_expiry_hash = watch.current_expiry_hash
              /\ watch'.did.writes = << >>]_vars

\* C21 witness: under max_size 2 the copied text 'ab' was turned into 'ab!'
\* by the rule's command, tracked with its TTL, and not saved.
C21_Witness ==
    /\ watch.max_size = 2
    /\ watch.did.op = "poll_clipboard" /\ watch.did.changed
    /\ watch.did.content = TextContent("ab")
    /\ watch.did.processed # None
    /\ Unwrap(watch.did.processed).content = TextContent("ab!")
    /\ ~watch.did.saved
    /\ watch.current_expiry # None
    /\ rows = {}

\* The pass is over and its TTL is one the timestamp arithmetic cannot
\* represent: from_std rejects it
UnrepresentableTtl ==
    /\ ar.pc \in {"done", "panic"}
    /\ LET selected == {k \in 1..Len(ar.seen) :
                            ar.seen[k].matched /\ ar.rules[k].ttl # None}
       IN  /\ selected # {}
           /\ ~from_std_ok(Unwrap(LastTtl(ar.rules, selected)))

\* C22: when the TTL of the pass cannot be represented in the timestamp
\* arithmetic, apply_rules still returns a result; the result carries no
\* expiry (the entry never expires) and the warning was printed.
C22_AsStated ==
    UnrepresentableTtl =>
        /\ ar.pc = "done"
        /\ ar.warned
        /\ ar.result.expires_at = None

(* ------------------------------------------------------------------ *)
(* run_command and wait_with_timeout (actions.rs)                       *)
(* ------------------------------------------------------------------ *)

\* Sizes are counted in blocks the size of a pipe buffer: a pipe holds PipeCap
\* blocks, inputs and outputs have up to MaxBytes blocks, MAX_COMMAND_OUTPUT
\* is OutputCap blocks.  The rule's timeout is CommandTimeout clock ticks.
MaxBytes == 2
PipeCap == 1
OutputCap == MaxBytes + 1
CommandTimeout == 1

\* What the child does: "filter" reads its input to the end, writes its output
\* and exits with success; "daemon" does the same and leaves behind a
\* descendant that inherited the pipes; "fail" exits with a non-zero status
\* without reading; "hang" neither reads nor exits
ChildKinds == {"filter", "daemon", "fail", "hang"}

\* After spawn and the start of the writer thread (lines 125-144)
Spawned(kind, input, output) ==
    [pc |-> "wait", kind |-> kind, input |-> input, output |-> output,
     to_write |-> input, writer |-> "running",
     stdin_buf |-> 0, stdout_buf |-> 0,
     child |-> "running", produced |-> 0,
     descendant |-> kind = "daemon",
     elapsed |-> 0, collected |-> 0,
     err |-> "none", joined |-> FALSE, result |-> "none"]

InitCommand ==
    /\ rows = {} /\ seq = 0 /\ now = 0 /\ last = NoCall
    /\ inflight = None /\ fifo = FifoIdle /\ ar = RulesIdle
    /\ watch = WatchIdle /\ handles = HandlesIdle /\ cfg = CfgIdle
    /\ proc \in {Spawned(k, n, m) : k \in ChildKinds, n \in 0..MaxBytes,
                                    m \in 0..MaxBytes}

\* Some process still holds the child's ends of the pipes
PipesHeld == proc.child = "running" \/ proc.descendant

\* The writer thread: write_all blocks while the pipe is full, fails once no
\* process holds the read end, and the thread drops stdin when it is done
WriterWrite ==
    /\ proc.pc # "off" /\ proc.writer = "running"
    /\ IF proc.to_write = 0
       THEN proc' = [proc EXCEPT !.writer = "done"]
       ELSE IF ~PipesHeld
       THEN proc' = [proc EXCEPT !.writer = "failed"]
       ELSE /\ proc.stdin_buf < PipeCap
            /\ proc' = [proc EXCEPT !.stdin_buf = @ + 1, !.to_write = @ - 1]
    /\ UNCHANGED <<rows, seq, now, last, inflight, fifo, ar, watch, handles, cfg>>

\* The child reads a block of its input
ChildRead ==
    /\ proc.pc # "off" /\ proc.child = "running"
    /\ proc.kind \in {"filter", "daemon"}
    /\ proc.stdin_buf > 0
    /\ proc' = [proc EXCEPT !.stdin_buf = @ - 1]
    /\ UNCHANGED <<rows, seq, now, last, inflight, fifo, ar, watch, handles, cfg>>

\* The child writes a block of its output; the write blocks while the pipe
\* is full
ChildWrite ==
    /\ proc.pc # "off" /\ proc.child = "running"
    /\ proc.kind \in {"filter", "daemon"}
    /\ proc.produced < proc.output
    /\ proc.stdout_buf < PipeCap
    /\ proc' = [proc EXCEPT !.stdout_buf = @ + 1, !.produced = @ + 1]
    /\ UNCHANGED <<rows, seq, now, last, inflight, fifo, ar, watch, handles, cfg>>

\* The child exits: a filter once it has read end-of-file and written all its
\* output, a failing command at any time
ChildExit ==
    /\ proc.pc # "off" /\ proc.child = "running"
    /\ \/ /\ proc.kind \in {"filter", "daemon"}
          /\ proc.writer # "running" /\ proc.stdin_buf = 0
          /\ proc.produced = proc.output
       \/ proc.kind = "fail"
    /\ proc' = [proc EXCEPT !.child = "exited"]
    /\ UNCHANGED <<rows, seq, now, last, inflight, fifo, ar, watch, handles, cfg>>

\* The descendant left behind by the child exits and closes the pipes
DescendantExit ==
    /\ proc.pc # "off" /\ proc.descendant
    /\ proc.child # "running"
    /\ proc' = [proc EXCEPT !.descendant = FALSE]
    /\ UNCHANGED <<rows, seq, now, last, inflight, fifo, ar, watch, handles, cfg>>

\* Time passes while wait_with_timeout polls
CommandClock ==
    /\ proc.pc = "wait" /\ proc.elapsed <= CommandTimeout
    /\ proc' = [proc EXCEPT !.elapsed = @ + 1]
    /\ UNCHANGED <<rows, seq, now, last, inflight, fifo, ar, watch, handles, cfg>>

\* wait_with_timeout: try_wait finds the child exited, or finds it running
\* after the timeout (finding it running before that is a sleep and a retry)
TryWait ==
    /\ proc.pc = "wait"
    /\ IF proc.child = "exited"
       THEN proc' = [proc EXCEPT !.pc = "collect"]
       ELSE /\ proc.elapsed > CommandTimeout
            /\ proc' = [proc EXCEPT !.pc = "timed_out", !.err = "timeout"]
    /\ UNCHANGED <<rows, seq, now, last, inflight, fifo, ar, watch, handles, cfg>>

\* read_to_end on the child's stdout, after the child has exited: takes what
\* is in the pipe, up to MAX_COMMAND_OUTPUT, and returns at end-of-file, that
\* is, once no process holds the write end
CollectOutput ==
    /\ proc.pc = "collect"
    /\ IF proc.stdout_buf > 0 /\ proc.collected < OutputCap
       THEN proc' = [proc EXCEPT !.stdout_buf = @ - 1, !.collected = @ + 1]
       ELSE /\ ~PipesHeld \/ proc.collected = OutputCap
            /\ proc' = [proc EXCEPT !.pc = "join"]
    /\ UNCHANGED <<rows, seq, now, last, inflight, fifo, ar, watch, handles, cfg>>

\* The timeout path: child.kill()
KillChild ==
    /\ proc.pc = "timed_out"
    /\ proc' = [proc EXCEPT !.pc = "join",
                            !.child = IF @ = "running" THEN "killed" ELSE @]
    /\ UNCHANGED <<rows, seq, now, last, inflight, fifo, ar, watch, handles, cfg>>

\* writer.join() returns once the writer thread has ended; then the call
\* returns: the timeout error, the writer's error, the exit status, or the output
JoinWriter ==
    /\ proc.pc = "join"
    /\ proc.writer \in {"done", "failed"}
    /\ proc' = [proc EXCEPT
          !.pc = "done", !.joined = TRUE,
          !.result = IF proc.err = "timeout" THEN "timeout"
                     ELSE IF proc.writer = "failed" THEN "stdin_error"
                     ELSE IF proc.kind = "fail" THEN "exit_status"
                     ELSE "ok"]
    /\ UNCHANGED <<rows, seq, now, last, inflight, fifo, ar, watch, handles, cfg>>

ChildStep == ChildRead \/ ChildWrite \/ ChildExit
CommandStep == TryWait \/ CollectOutput \/ KillChild \/ JoinWriter

NextCommand ==
    WriterWrite \/ ChildStep \/ DescendantExit \/ CommandClock \/ CommandStep

SpecCommand == InitCommand /\ [][NextCommand]_vars

\* The calling thread, the writer thread, the child and the clock all run; a
\* descendant of the child owes nothing
SpecCommandLive ==
    InitCommand /\ [][NextCommand]_vars
        /\ WF_vars(CommandStep) /\ WF_vars(WriterWrite)
        /\ WF_vars(ChildStep) /\ WF_vars(CommandClock)

\* C23: a child that reads its input to the end, writes its output and then
\* exits is never blocked for good while run_command waits for it: as long as
\* it runs, the child or the writer feeding it has a step to take.
C23_AsStated ==
    (/\ proc.pc = "wait" /\ proc.kind = "filter" /\ proc.child = "running"
     /\ proc.output <= OutputCap)
        => ENABLED (WriterWrite \/ ChildStep)

\* C24: every run_command call returns.
C24_AsStated == (proc.pc # "off") ~> (proc.pc = "done")

\* The step processed a change of a selection buffer: an entry was built
ProcessedStep ==
    /\ LoopStep
    /\ watch'.did.op \in {"poll_clipboard", "poll_primary"}
    /\ watch'.did.changed
    /\ watch'.did.processed # None

\* The tracker holds nothing
TrackerClear(w) == w.current_expiry = None /\ w.current_expiry_hash = None

\* The stored entries of the given hash that carry an expiry
StoredExpiries(db, hash) ==
    {r \in db : r.content_hash = hash /\ r.expires_at # None}

\* C25: the tracked expiry instant and the tracked hash are both set or both
\* absent in every state of the loop; a processed change replaces the tracker:
\* with (now + ttl, hash of the processed entry) when the rules gave a TTL,
\* and otherwise with an instant for that same hash taken from the stored
\* expiry, or with nothing; every other step leaves the tracker alone or
\* clears it, so the tracked hash is that of the last processed change.
C25_SingleTracker ==
    /\ [](watch.pc # "off" =>
            (watch.current_expiry = None <=> watch.current_expiry_hash = None))
    /\ [][watch.pc # "off" =>
          IF ProcessedStep
          THEN LET e == Unwrap(watch'.did.processed) IN
               IF e.expires_at # None
               THEN /\ watch'.current_expiry = Some(now + WatchTtl)
                    /\ watch'.current_expiry_hash = Some(content_hash(e))
               ELSE \/ TrackerClear(watch')
                    \/ /\ StoredExpiries(rows', content_hash(e)) # {}
                       /\ watch'.current_expiry # None
                       /\ Unwrap(watch'.current_expiry) >= now
                       /\ watch'.current_expiry_hash = Some(content_hash(e))
          ELSE \/ /\ watch'.current_expiry = watch.current_expiry
                  /\ watch'.current_expiry_hash = watch.current_expiry_hash
               \/ TrackerClear(watch')]_vars

\* C25 witness: a second processed change, of another content than the one
\* stored before, has just replaced the tracker with its own hash and TTL.
C25_Witness ==
    /\ watch.did.op = "poll_clipboard" /\ watch.did.changed
    /\ watch.did.processed # None
    /\ watch.copies = 2
    /\ watch.current_expiry = Some(now + WatchTtl)
    /\ watch.current_expiry_hash = Some(content_hash(Unwrap(watch.did.processed)))
    /\ \E r \in rows : r.content_hash # Unwrap(watch.current_expiry_hash)

\* C26: when the rules give no TTL for a processed change, the stored entry
\* of the same hash is looked up, and when the lookup succeeds and that entry
\* carries an expiry the tracker is set to now plus the remaining duration
\* (the stored expiry, or now when the expiry is already past) for that hash;
\* without a stored expiry, or when the lookup fails, the tracker is cleared.
\* When the rules give a TTL the lookup is not made and the tracker is set
\* to now plus that TTL.
C26_ExpiryAdoption ==
    [][ProcessedStep =>
        LET e == Unwrap(watch'.did.processed)
            hash == content_hash(e)
            stored == StoredExpiries(rows', hash)
        IN  IF e.expires_at = None
            THEN /\ watch'.did.lookup \in StoreOutcomes
                 /\ IF watch'.did.lookup = "ok" /\ stored # {}
                    THEN \E r \in stored :
                           LET expires == Unwrap(r.expires_at) IN
                           /\ watch'.current_expiry =
                                 Some(IF expires > now THEN expires ELSE now)
                           /\ watch'.current_expiry_hash = Some(hash)
                    ELSE TrackerClear(watch')
            ELSE /\ watch'.did.lookup = "skipped"
                 /\ watch'.current_expiry = Some(now + WatchTtl)
                 /\ watch'.current_expiry_hash = Some(hash)]_vars

\* C26 witness: a change without rule TTL was processed, the stored entry of
\* its hash carries an expiry that lies ahead, and the tracker holds it.
C26_Witness ==
    /\ watch.did.op = "poll_clipboard" /\ watch.did.changed
    /\ watch.did.processed # None
    /\ Unwrap(watch.did.processed).expires_at = None
    /\ watch.did.lookup = "ok"
    /\ now > 0
    /\ \E r \in rows :
          /\ r.content_hash = content_hash(Unwrap(watch.did.processed))
          /\ r.expires_at # None
          /\ Unwrap(r.expires_at) > now
          /\ watch.current_expiry = r.expires_at
          /\ watch.current_expiry_hash = Some(r.content_hash)

\* C26 witness: the stored expiry was already past and the tracker holds now.
C26_WitnessPast ==
    /\ watch.did.op = "poll_clipboard" /\ watch.did.changed
    /\ watch.did.processed # None
    /\ Unwrap(watch.did.processed).expires_at = None
    /\ watch.did.lookup = "ok"
    /\ watch.current_expiry = Some(now)
    /\ \E r \in rows :
          /\ r.content_hash = content_hash(Unwrap(watch.did.processed))
          /\ r.expires_at # None
          /\ Unwrap(r.expires_at) < now

\* C26 witness: the rules gave a TTL while the stored entry of the same hash
\* carries another expiry; the tracker holds now plus the rule's TTL.
C26_WitnessRuleTtl ==
    /\ watch.did.op = "poll_clipboard" /\ watch.did.changed
    /\ watch.did.processed # None
    /\ Unwrap(watch.did.processed).expires_at # None
    /\ watch.did.lookup = "skipped"
    /\ watch.current_expiry = Some(now + WatchTtl)
    /\ \E r \in rows :
          /\ r.content_hash = content_hash(Unwrap(watch.did.processed))
          /\ r.expires_at # None
          /\ r.expires_at # watch.current_expiry

\* The step wrote the text to the given selection buffer as a mirror of a
\* change of the other one
MirrorStep(op, selection, t) ==
    /\ LoopStep
    /\ watch'.did.op = op /\ watch'.did.changed
    /\ watch'.did.writes = <<[selection |-> selection, content |-> written_text(t)]>>

\* C27: a step that mirrors text T to the other buffer sets that buffer's
\* last-seen hash to hash(T); the last-seen hash of a buffer changes only in
\* a poll of that buffer that finds a change, in a mirror to it, or in a
\* restoration; and a poll of a buffer whose content has the last-seen hash
\* detects no change: the table, the tracker and both buffers stay as they are.
C27_NoPingPong ==
    [][/\ \A t \in Texts \cup {"ab!", "AB!"} :
            /\ MirrorStep("poll_clipboard", "primary", t) =>
                  /\ watch'.last_primary_hash = Some(compute_hash(TextContent(t)))
                  /\ watch'.primary = TextContent(t)
                  /\ watch'.pc = "head"
            /\ MirrorStep("poll_primary", "clipboard", t) =>
                  /\ watch'.last_clipboard_hash = Some(compute_hash(TextContent(t)))
                  /\ watch'.clipboard = TextContent(t)
       /\ watch'.last_primary_hash # watch.last_primary_hash =>
            /\ LoopStep
            /\ \/ watch'.did.op = "poll_primary" /\ watch'.did.changed
               \/ /\ watch'.did.op \in {"poll_clipboard", "check_expiry_and_restore"}
                  /\ watch'.did.writes # << >>
       /\ watch'.last_clipboard_hash # watch.last_clipboard_hash =>
            /\ LoopStep
            /\ \/ watch'.did.op = "poll_clipboard" /\ watch'.did.changed
               \/ /\ watch'.did.op \in {"poll_primary", "check_expiry_and_restore"}
                  /\ watch'.did.writes # << >>
       /\ (/\ LoopStep /\ watch'.did.op = "poll_primary"
           /\ clipboard_content_hash(watch.primary) = watch.last_primary_hash) =>
            /\ ~watch'.did.changed /\ watch'.did.writes = << >>
            /\ rows' = rows /\ seq' = seq
            /\ watch'.clipboard = watch.clipboard /\ watch'.primary = watch.primary
            /\ watch'.last_clipboard_hash = watch.last_clipboard_hash
            /\ watch'.last_primary_hash = watch.last_primary_hash
            /\ watch'.current_expiry = watch.current_expiry
       /\ (/\ LoopStep /\ watch'.did.op = "poll_clipboard"
           /\ clipboard_content_hash(watch.clipboard) = watch.last_clipboard_hash) =>
            /\ ~watch'.did.changed /\ watch'.did.writes = << >>
            /\ rows' = rows /\ seq' = seq
            /\ watch'.clipboard = watch.clipboard /\ watch'.primary = watch.primary
            /\ watch'.last_clipboard_hash = watch.last_clipboard_hash
            /\ watch'.last_primary_hash = watch.last_primary_hash
            /\ watch'.current_expiry = watch.current_expiry]_vars

\* C27 witness: in mode both, after the user's single copy of "ab" was stored
\* as "AB" and mirrored to the primary buffer, a later poll of the primary
\* buffer read "AB" and found no change; the history has its one entry.
C27_Witness ==
    /\ watch.sync_mode = "both" /\ watch.copies = 1
    /\ watch.clipboard = TextContent("ab")
    /\ watch.primary = TextContent("AB")
    /\ watch.did.op = "poll_primary" /\ watch.did.read_ok /\ ~watch.did.changed
    /\ watch.last_primary_hash = Some(compute_hash(TextContent("AB")))
    /\ Cardinality(rows) = 1

\* C28: the steps of an iteration of the loop follow one another in the order
\* maintenance prune (loop head), TTL-expiry check, poll of the copy/paste
\* buffer, poll of the primary buffer: each step of the loop is the one its
\* predecessor leads to; the poll of the primary buffer comes only after the
\* poll of the copy/paste buffer of the same iteration, and is left out when
\* that poll mirrored a change to the primary buffer (and in disabled mode).
C28_TickOrdering ==
    [][LoopStep =>
        /\ watch.pc = "head" =>
              /\ watch'.did.op \in {"head", "exit"}
              /\ watch'.pc = IF watch.running THEN "expiry" ELSE "stopped"
        /\ watch.pc = "expiry" =>
              /\ watch'.did.op = "check_expiry_and_restore"
              /\ watch'.pc = "clipboard"
        /\ watch.pc = "clipboard" =>
              /\ watch'.did.op = "poll_clipboard"
              /\ "primary" \notin watch'.did.reads
              /\ watch'.pc =
                    IF \/ watch.sync_mode = "disabled"
                       \/ \E k \in 1..Len(watch'.did.writes) :
                             watch'.did.writes[k].selection = "primary"
                    THEN "head" ELSE "primary"
        /\ watch.pc = "primary" =>
              /\ watch'.did.op = "poll_primary"
              /\ watch'.pc = "head"
        /\ watch'.did.op = "poll_primary" =>
              /\ watch.did.op = "poll_clipboard"
              /\ watch.did.writes = << >>]_vars

\* C28 witness: in mode both the poll of the copy/paste buffer mirrored a
\* change to the primary buffer and the iteration ended, back at the loop
\* head, without a poll of the primary buffer.
C28_Witness ==
    /\ watch.sync_mode = "both"
    /\ watch.pc = "head"
    /\ watch.did.op = "poll_clipboard" /\ watch.did.changed
    /\ Len(watch.did.writes) = 1
    /\ watch.did.writes[1].selection = "primary"
    /\ watch.primary = watch.did.writes[1].content

(* ------------------------------------------------------------------ *)
(* The background writers of run_sync (cli/watch.rs 469-522)            *)
(* ------------------------------------------------------------------ *)

\* run_sync writes to a selection buffer at most MaxWrites times in a run
MaxWrites == 3

Selections == {"primary", "clipboard"}

\* run_sync at the start: no handle held (lines 469-470), no writer thread;
\* the selections are owned by other applications
HandlesStart ==
    [pc |-> "loop", selection |-> "primary", new_handle |-> None,
     handle |-> [s \in Selections |-> None],
     threads |-> {}, owner |-> [s \in Selections |-> 0], started |-> 0]

InitHandles ==
    /\ rows = {} /\ seq = 0 /\ now = 0 /\ last = NoCall
    /\ inflight = None /\ fifo = FifoIdle /\ ar = RulesIdle
    /\ watch = WatchIdle /\ proc = ProcIdle
    /\ handles = HandlesStart /\ cfg = CfgIdle

\* The writer threads started and not joined, for a selection
Unjoined(h, s) == {t \in h.threads : t.selection = s /\ ~t.joined}

\* write_selection_text: a thread is started that takes the ownership of the
\* selection and serves it until another owner takes it (set().wait()); its
\* handle is returned.  The thread ends at once when it cannot open the
\* clipboard, and no handle is returned when no thread could be started.
write_selection_text(h, s) ==
    {[h EXCEPT !.new_handle = None]} \cup
    {[h EXCEPT !.new_handle = Some(h.started + 1),
               !.started = @ + 1,
               !.threads = {IF t.selection = s /\ took THEN [t EXCEPT !.serving = FALSE]
                            ELSE t : t \in @}
                           \cup {[id |-> h.started + 1, selection |-> s,
                                  serving |-> took, joined |-> FALSE]},
               !.owner[s] = IF took THEN h.started + 1 ELSE @] :
        took \in BOOLEAN}

\* Faulty variant: the previous handle dropped without a join
join_previous_dropped(threads, old) == threads

\* if let Some(old) = handle.take() { let _ = old.join(); }
join_previous(threads, old) ==
    {IF old # None /\ t.id = Unwrap(old) THEN [t EXCEPT !.joined = TRUE] ELSE t :
        t \in threads}

\* let new_handle = clipboard::write_selection_text(kind, text): the three
\* places where run_sync writes to a selection buffer
IssueWrite ==
    /\ handles.pc = "loop" /\ handles.started < MaxWrites
    /\ \E s \in Selections :
       \E h \in write_selection_text(handles, s) :
          handles' = [h EXCEPT !.pc = "issued", !.selection = s]
    /\ UNCHANGED <<rows, seq, now, last, inflight, fifo, ar, watch, proc, cfg>>

\* if let Some(old) = handle.take() { old.join() }; handle = new_handle:
\* join returns once the old thread has ended
JoinPrevious ==
    /\ handles.pc = "issued"
    /\ LET s == handles.selection
           old == handles.handle[s]
       IN  /\ old # None =>
                \E t \in handles.threads : t.id = Unwrap(old) /\ ~t.serving
           /\ handles' = [handles EXCEPT
                 !.pc = "loop",
                 !.threads = join_previous(@, old),
                 !.handle[s] = handles.new_handle,
                 !.new_handle = None]
    /\ UNCHANGED <<rows, seq, now, last, inflight, fifo, ar, watch, proc, cfg>>

\* Another application takes the ownership of a selection: the writer
\* serving it ends
OwnerChange ==
    /\ handles.pc \in {"loop", "issued"}
    /\ \E s \in Selections :
          /\ handles.owner[s] # 0
          /\ handles' = [handles EXCEPT
                !.owner[s] = 0,
                !.threads = {IF t.selection = s THEN [t EXCEPT !.serving = FALSE]
                             ELSE t : t \in @}]
    /\ UNCHANGED <<rows, seq, now, last, inflight, fifo, ar, watch, proc, cfg>>

NextHandles == IssueWrite \/ JoinPrevious \/ OwnerChange

SpecHandles == InitHandles /\ [][NextHandles]_vars

C29_WitnessJoined ==
    /\ handles.pc = "loop"
    /\ handles.handle["primary"] # None
    /\ \E t \in handles.threads : t.selection = "primary" /\ t.joined
    /\ Cardinality(Unjoined(handles, "primary")) = 1

\* C30: a save_or_update that merges into an existing row sets that row's
\* created_at to now, and no row of the table is more recent; a capacity
\* eviction (prune_oldest) that deletes a row deletes every row of smaller
\* created_at as well, so the merged row goes after all rows whose created_at
\* lies before the merge.
C30_DedupRecency ==
    [][/\ (CallStep("save_or_update") /\ last'.branch = "dedup") =>
            \E new \in rows' :
                /\ new.id = last'.ret
                /\ new.content = last'.content
                /\ new.created_at = now
                /\ \A k \in rows' : k.created_at <= new.created_at
       /\ CallStep("prune_oldest") =>
            \A r \in rows \ rows' : \A k \in rows :
                k.created_at < r.created_at => k \notin rows']_vars

\* C30 witness: a merge into the row stored first has just made it more
\* recent than the row stored after it.
C30_Witness ==
    /\ last.op = "save_or_update" /\ last.branch = "dedup" /\ last.ret = 1
    /\ \E r \in rows : \E k \in rows :
          /\ r.id = 1 /\ k.id = 2
          /\ r.created_at = now /\ k.created_at < now

(* ------------------------------------------------------------------ *)
(* Config::compile_rules and ActionRule::compile (config/types.rs)      *)
(* ------------------------------------------------------------------ *)

\* A configuration lists at most MaxRules action rules
MaxRules == 2

\* Regex::new: "[invalid" does not compile
regex_new_ok(pattern) == pattern # "[invalid"

\* ActionRule as deserialized (the name and command_timeout left out): any
\* condition, a pattern that may not compile, a command list that may be empty
ActionRules ==
    [source_app : {None, Some("Firefox")},
     content_regex : {None, Some("^a"), Some("[invalid")},
     source_title_regex : {None, Some("[invalid")},
     ttl : {None, Some(30)},
     command : {None, Some(<< >>), Some(<<"tr", "a-z", "A-Z">>)}]

ActionLists ==
    UNION {[1..n -> ActionRules] : n \in 0..MaxRules}

\* Faulty variant: compile without the check of the command list
compile_any_command(rule) ==
    IF /\ rule.source_app = None /\ rule.content_regex = None
       /\ rule.source_title_regex = None
    THEN [ok |-> FALSE]
    ELSE IF rule.content_regex # None /\ ~regex_new_ok(Unwrap(rule.content_regex))
    THEN [ok |-> FALSE]
    ELSE IF /\ rule.source_title_regex # None
            /\ ~regex_new_ok(Unwrap(rule.source_title_regex))
    THEN [ok |-> FALSE]
    ELSE [ok |-> TRUE, value |-> rule]

\* ActionRule::compile: Err for a rule without condition, with a pattern that
\* does not compile, or with an empty command list; else the CompiledRule
compile(rule) ==
    IF /\ rule.source_app = None /\ rule.content_regex = None
       /\ rule.source_title_regex = None
    THEN [ok |-> FALSE]
    ELSE IF rule.content_regex # None /\ ~regex_new_ok(Unwrap(rule.content_regex))
    THEN [ok |-> FALSE]
    ELSE IF /\ rule.source_title_regex # None
            /\ ~regex_new_ok(Unwrap(rule.source_title_regex))
    THEN [ok |-> FALSE]
    ELSE IF rule.command # None /\ Unwrap(rule.command) = << >>
    THEN [ok |-> FALSE]
    ELSE [ok |-> TRUE, value |-> rule]

\* compile_rules before its loop
CompileStart(actions) ==
    [pc |-> "loop", actions |-> actions, i |-> 1, compiled |-> << >>,
     warnings |-> 0]

InitCompile ==
    /\ rows = {} /\ seq = 0 /\ now = 0 /\ last = NoCall
    /\ inflight = None /\ fifo = FifoIdle /\ ar = RulesIdle
    /\ watch = WatchIdle /\ proc = ProcIdle /\ handles = HandlesIdle
    /\ cfg \in {CompileStart(actions) : actions \in ActionLists}

\* One iteration of `for rule in &self.actions`
CompileRulesIter ==
    /\ cfg.pc = "loop" /\ cfg.i <= Len(cfg.actions)
    /\ LET r == compile(cfg.actions[cfg.i]) IN
       IF r.ok /\ ~(r.value.ttl = None /\ r.value.command = None)
       THEN cfg' = [cfg EXCEPT !.i = @ + 1,
                               !.compiled = Append(@, r.value)]
       ELSE cfg' = [cfg EXCEPT !.i = @ + 1, !.warnings = @ + 1]
    /\ UNCHANGED <<rows, seq, now, last, inflight, fifo, ar, watch, proc, handles>>

\* The end of the loop: compiled is returned
CompileRulesReturn ==
    /\ cfg.pc = "loop" /\ cfg.i > Len(cfg.actions)
    /\ cfg' = [cfg EXCEPT !.pc = "done"]
    /\ UNCHANGED <<rows, seq, now, last, inflight, fifo, ar, watch, proc, handles>>

NextCompile == CompileRulesIter \/ CompileRulesReturn

SpecCompile == InitCompile /\ [][NextCompile]_vars

\* A rule as C31 wants it: a condition, patterns that compile, a command list
\* that is not empty if there is one, and a TTL or a command
Validated(rule) ==
    /\ \/ rule.source_app # None \/ rule.content_regex # None
       \/ rule.source_title_regex # None
    /\ rule.content_regex # None => Unwrap(rule.content_regex) # "[invalid"
    /\ rule.source_title_regex # None => Unwrap(rule.source_title_regex) # "[invalid"
    /\ rule.command # None => Len(Unwrap(rule.command)) > 0
    /\ rule.ttl # None \/ rule.command # None

\* C31: the rules returned by compile_rules are the rules of the
\* configuration that have a condition, patterns that compile, a non-empty
\* command list if any, and a TTL or a command, in the order of their
\* definition; every other rule is dropped with a warning.
C31_ValidatedRules ==
    cfg.pc = "done" =>
        /\ cfg.compiled = SelectSeq(cfg.actions, Validated)
        /\ \A k \in 1..Len(cfg.compiled) : Validated(cfg.compiled[k])
        /\ cfg.warnings = Len(cfg.actions) - Len(cfg.compiled)

\* C31 witness: of two rules that differ, the first is kept and the second,
\* whose command list is empty, is dropped.
C31_Witness ==
    /\ cfg.pc = "done"
    /\ Len(cfg.actions) = 2 /\ Len(cfg.compiled) = 1
    /\ cfg.compiled[1] = cfg.actions[1]
    /\ cfg.actions[2].command = Some(<< >>)
    /\ cfg.actions[2].source_app # None /\ cfg.actions[2].ttl # None

\* C31 witness: two rules kept, in the order of their definition.
C31_WitnessOrder ==
    /\ cfg.pc = "done"
    /\ Len(cfg.compiled) = 2
    /\ cfg.compiled[1] # cfg.compiled[2]
    /\ cfg.compiled = cfg.actions

\* C32 as stated: a detected change that is not persisted, because
\* save_or_update failed or because the content exceeds max_size, leaves the
\* TTL tracker as it was and mirrors nothing to the other buffer.
C32_AsStated ==
    [][(/\ LoopStep
        /\ watch'.did.op \in {"poll_clipboard", "poll_primary"}
        /\ watch'.did.changed
        /\ ~watch'.did.saved)
       => /\ watch'.current_expiry = watch.current_expiry
          /\ watch'.current_expiry_hash = watch.current_expiry_hash
          /\ watch'.did.writes = << >>]_vars

\* C33: a successful save_or_update of content whose stored row has an expiry
\* that is past (expires_at < now) deletes that row and takes the insert
\* branch: the id returned is a new one, no row keeps the old id, and the row
\* of the new id carries the incoming entry's expiry and source application
\* and nothing of the deleted row.
C33_ExpiredRecreated ==
    [][(CallStep("save_or_update") /\ last'.ok) =>
        \A old \in rows :
            (old.content_hash = content_hash(last'.entry) /\ Expired(old, now)) =>
                /\ last'.branch = "insert"
                /\ last'.ret # old.id /\ last'.ret = seq + 1
                /\ \A r \in rows' : r.id # old.id
                /\ \A new \in rows' :
                      new.content_hash = old.content_hash =>
                          /\ new.id = last'.ret
                          /\ new.created_at = now
                          /\ new.expires_at = last'.entry.expires_at
                          /\ new.source_app = last'.entry.source_app]_vars

\* C33 witness: the save of a content without expiry or source application
\* met the row of id 1, of the same content and expired; the table now holds
\* the row of id 2 alone, without expiry and without source application.
C33_Witness ==
    /\ last.op = "save_or_update" /\ last.ok /\ last.branch = "insert"
    /\ last.stale
    /\ last.ret = 2 /\ seq = 2
    /\ last.entry.expires_at = None /\ last.entry.source_app = None
    /\ \E r \in rows :
          /\ rows = {r} /\ r.id = 2
          /\ r.expires_at = None /\ r.source_app = None

\* C34 as stated: whenever check_expiry_and_restore writes a stored entry back
\* to the copy/paste buffer, the hash of that entry differs from the tracked
\* hash, also when the check runs at the instant of the stored expiry.
C34_AsStated ==
    [][(/\ ExpiryElapsedStep
        /\ watch'.did.asked /\ watch'.did.latest.ok
        /\ watch'.did.latest.value # None
        /\ watch'.did.writes # << >>)
       => Some(Unwrap(watch'.did.latest.value).content_hash)
              # watch.current_expiry_hash]_vars

\* C35 as stated: right after a change of the copy/paste buffer was processed
\* with a TTL, the tracked hash is the hash of the content the copy/paste
\* buffer holds, also when a command of the rules transformed the text.
C35_AsStated ==
    [][(/\ ProcessedStep
        /\ watch'.did.op = "poll_clipboard"
        /\ watch'.current_expiry # None)
       => watch'.current_expiry_hash = clipboard_content_hash(watch'.clipboard)]_vars

\* C36 as stated: in to-primary mode, while the tracked entry is in the
\* copy/paste buffer, a processed change of the primary buffer for which
\* neither the rules nor the stored entry give a TTL leaves the tracked
\* instant and hash as they were.
C36_AsStated ==
    [][(/\ ProcessedStep
        /\ watch'.did.op = "poll_primary"
        /\ watch.sync_mode = "to-primary"
        /\ watch.current_expiry # None
        /\ clipboard_content_hash(watch.clipboard) = watch.current_expiry_hash
        /\ Unwrap(watch'.did.processed).expires_at = None
        /\ StoredExpiries(rows', content_hash(Unwrap(watch'.did.processed))) = {}
        /\ watch'.did.writes = << >>)
       => /\ watch'.current_expiry = watch.current_expiry
          /\ watch'.current_expiry_hash = watch.current_expiry_hash]_vars

\* check_expiry_and_restore has just written back the stored entry of content
\* c, which carries an expiry that lies ahead
RestoredWithExpiry(c) ==
    /\ watch.pc = "clipboard"
    /\ watch.did.op = "check_expiry_and_restore" /\ watch.did.elapsed
    /\ watch.did.asked /\ watch.did.latest.ok
    /\ watch.did.latest.value # None
    /\ Unwrap(watch.did.latest.value).content = c
    /\ Unwrap(watch.did.latest.value).expires_at # None
    /\ Unwrap(Unwrap(watch.did.latest.value).expires_at) > now
    /\ watch.did.writes # << >>

\* C37 as stated: once check_expiry_and_restore has written back an entry that
\* carries an expiry lying ahead, the loop comes to track that entry's hash
\* (or the copy/paste buffer comes to hold something else, or the loop stops).
C37_AsStated ==
    \A c \in ClipboardContents \ {EmptyContent} :
        RestoredWithExpiry(c) ~>
            \/ watch.current_expiry_hash = clipboard_content_hash(c)
            \/ watch.clipboard # c
            \/ watch.pc = "stopped"

\* C38 as stated: in mode both, while the text the copy/paste buffer changed
\* to is with the background writer of the primary buffer, the user has
\* changed nothing since, and the primary buffer holds the content the loop
\* had last seen there, a poll of the primary buffer detects no change and
\* leaves the copy/paste buffer and its writer as they are.
C38_AsStated ==
    [][(/\ LoopStep
        /\ watch.pc = "primary" /\ watch'.did.op = "poll_primary"
        /\ watch.sync_mode = "both"
        /\ watch.pending.primary # None
        /\ Unwrap(watch.pending.primary).op = "poll_clipboard"
        /\ Unwrap(watch.pending.primary).copies = watch.copies
        /\ Unwrap(watch.pending.primary).content = watch.clipboard
        /\ Unwrap(watch.pending.primary).seen
                = clipboard_content_hash(watch.primary))
       => /\ ~watch'.did.changed
          /\ watch'.clipboard = watch.clipboard
          /\ watch'.pending.clipboard = watch.pending.clipboard]_vars

\* The running text before rule k of the pass, worked out from the entry's
\* text and the commands the pass recorded as successful
RECURSIVE RunningBefore(_)
RunningBefore(k) ==
    IF k = 1
    THEN text(ar.entry.content)
    ELSE LET before == RunningBefore(k - 1) IN
         IF ar.seen[k - 1].ran = "ok"
         THEN Some(stdout_of(Unwrap(ar.rules[k - 1].command), Unwrap(before)))
         ELSE before

\* C39: within one apply_rules pass, every rule is matched against the running
\* text as the successful commands of the rules before it left it, not against
\* the entry's original text.
C39_RunningText ==
    ar.pc \in {"loop", "done"} =>
        \A k \in 1..Len(ar.seen) :
            ar.seen[k].matched =
                rule_matches(ar.rules[k], ar.entry.source_app, RunningBefore(k),
                             ar.entry.content.kind = "image",
                             ar.entry.source_title)

\* C39 witness: the first rule's command succeeded and the second rule, whose
\* content regex matches the entry's original text, did not match.
C39_Witness ==
    /\ ar.pc = "done" /\ Len(ar.seen) = 2
    /\ ar.seen[1].ran = "ok"
    /\ ar.rules[2].content_regex # None
    /\ is_match(Unwrap(ar.rules[2].content_regex), ar.entry.content.text)
    /\ ~ar.seen[2].matched
    /\ ar.rules[2].source_app = None

\* C39 witness: the first rule's command succeeded and the second rule, whose
\* content regex does not match the entry's original text, matched.
C39_WitnessStarts ==
    /\ ar.pc = "done" /\ Len(ar.seen) = 2
    /\ ar.seen[1].ran = "ok"
    /\ ar.rules[2].content_regex # None
    /\ ar.entry.content.kind = "text"
    /\ ~is_match(Unwrap(ar.rules[2].content_regex), ar.entry.content.text)
    /\ ar.seen[2].matched

\* The step processed a changed buffer content that was rejected for its size:
\* an image whose RGBA bytes exceed max_size (no entry was built), or an entry
\* whose content after the rule pass exceeds max_size
RejectedForSize ==
    /\ LoopStep
    /\ watch'.did.op \in {"poll_clipboard", "poll_primary"}
    /\ watch'.did.changed
    /\ \/ /\ watch'.did.content.kind = "image"
          /\ rgba_len(watch'.did.content) > watch.max_size
       \/ /\ watch'.did.processed # None
          /\ content_size_bytes(Unwrap(watch'.did.processed).content)
                > watch.max_size

\* C40: a changed buffer content that is rejected for its size still becomes
\* the buffer's last-seen hash, and a poll of a buffer that holds the content
\* of its last-seen hash detects no change and processes nothing.
C40_RejectedSeenOnce ==
    [][/\ (RejectedForSize /\ watch'.did.op = "poll_clipboard")
            => watch'.last_clipboard_hash
                    = clipboard_content_hash(watch'.did.content)
       /\ (RejectedForSize /\ watch'.did.op = "poll_primary")
            => watch'.last_primary_hash
                    = clipboard_content_hash(watch'.did.content)
       /\ (/\ LoopStep /\ watch'.did.op = "poll_clipboard"
           /\ watch.last_clipboard_hash
                    = clipboard_content_hash(watch.clipboard))
            => ~watch'.did.changed /\ rows' = rows /\ seq' = seq]_vars

\* C40 witness: a tick polled the copy/paste buffer, which still holds the
\* image that was rejected for its RGBA size, and detected no change.
C40_Witness ==
    /\ watch.did.op = "poll_clipboard"
    /\ watch.did.read_ok /\ ~watch.did.changed
    /\ watch.clipboard = ImageContent
    /\ rgba_len(watch.clipboard) > watch.max_size
    /\ watch.last_clipboard_hash = clipboard_content_hash(ImageContent)
    /\ rows = {}

\* C40 witness: the entry of a changed text was rejected for its size after a
\* rule command made it longer, and the text is the buffer's last-seen hash.
C40_WitnessEntry ==
    /\ watch.did.op = "poll_clipboard" /\ watch.did.changed
    /\ watch.did.processed # None
    /\ content_size_bytes(Unwrap(watch.did.processed).content) > watch.max_size
    /\ ~watch.did.saved
    /\ watch.clipboard = watch.did.content
    /\ watch.last_clipboard_hash = clipboard_content_hash(watch.clipboard)

====
